---- MODULE Spec2Model ----
(***************************************************************************)
(* The BPMN AI editor backend: the POST /api/chat request handler of the   *)
(* multi-provider server, with its 45 s timer, its provider call and its   *)
(* XML validation / repair pipeline.  Document texts are TLA+ strings and  *)
(* the regular expressions of the source are evaluated character by        *)
(* character.                                                              *)
(***************************************************************************)
EXTENDS Integers, Sequences, FiniteSets, TLC

(***************************************************************************)
(* Strings                                                                 *)
(***************************************************************************)

\* s[i] of JavaScript (1-based here); "" outside the string
Ch(s, i) == IF i >= 1 /\ i <= Len(s) THEN SubSeq(s, i, i) ELSE ""

\* s.substring(i-1, j) for 1-based inclusive bounds; "" when empty
Sub(s, i, j) == IF i <= j /\ i >= 1 /\ j <= Len(s) THEN SubSeq(s, i, j) ELSE ""

\* String.prototype.includes
Includes(s, lit) ==
    \E i \in 1..(Len(s) - Len(lit) + 1) : SubSeq(s, i, i + Len(lit) - 1) = lit

\* The scans below split their range in halves, so that the depth of the
\* recursion is logarithmic in the length of the text.

\* first index in lo..hi that holds the character c, 0 if none
RECURSIVE FirstChar(_, _, _, _)
FirstChar(s, c, lo, hi) ==
    IF lo > hi THEN 0
    ELSE IF lo = hi THEN (IF SubSeq(s, lo, lo) = c THEN lo ELSE 0)
    ELSE LET mid  == (lo + hi) \div 2
             left == FirstChar(s, c, lo, mid)
         IN  IF left # 0 THEN left ELSE FirstChar(s, c, mid + 1, hi)

\* index of the first occurrence of the character c at or after i, 0 if none
IndexFrom(s, c, i) == FirstChar(s, c, IF i < 1 THEN 1 ELSE i, Len(s))

\* first index in lo..hi at which the literal lit begins, 0 if none
RECURSIVE FirstLit(_, _, _, _)
FirstLit(s, lit, lo, hi) ==
    IF lo > hi THEN 0
    ELSE IF lo = hi
    THEN (IF SubSeq(s, lo, lo + Len(lit) - 1) = lit THEN lo ELSE 0)
    ELSE LET mid  == (lo + hi) \div 2
             left == FirstLit(s, lit, lo, mid)
         IN  IF left # 0 THEN left ELSE FirstLit(s, lit, mid + 1, hi)

\* index of the first occurrence of the literal lit at or after i, 0 if none
IndexOfLit(s, lit, i) ==
    FirstLit(s, lit, IF i < 1 THEN 1 ELSE i, Len(s) - Len(lit) + 1)

\* the text t with every character replaced by its image under the rule
RECURSIVE MapChars(_, _)
MapChars(rule, t) ==
    IF Len(t) = 0 THEN ""
    ELSE IF Len(t) = 1
    THEN (CASE rule = "apos" /\ t = "\""   -> "'"
            [] rule = "json" /\ t = "\""   -> "\\\""
            [] rule = "json" /\ t = "\\"   -> "\\\\"
            [] rule = "json" /\ t = "\n"   -> "\\n"
            [] OTHER                       -> t)
    ELSE LET mid == Len(t) \div 2
         IN  MapChars(rule, SubSeq(t, 1, mid))
             \o MapChars(rule, SubSeq(t, mid + 1, Len(t)))

Letters ==
    {"a","b","c","d","e","f","g","h","i","j","k","l","m",
     "n","o","p","q","r","s","t","u","v","w","x","y","z",
     "A","B","C","D","E","F","G","H","I","J","K","L","M",
     "N","O","P","Q","R","S","T","U","V","W","X","Y","Z"}

\* the class \s restricted to the white space that occurs in the documents
WhiteSpace == {" ", "\n", "\t", "\r"}

Abs(n) == IF n < 0 THEN -n ELSE n

(***************************************************************************)
(* Regular expressions of the source.  MatchEnd(kind, s, i) is the index   *)
(* of the last character of the match of the expression that starts at    *)
(* position i, or 0 when the expression does not match there.              *)
(***************************************************************************)

\* /<[^/!?][^>]*>/  (validateXMLStructure, analyzeXMLStructure)
MatchAllOpen(s, i) ==
    IF Ch(s, i) = "<" /\ i + 1 <= Len(s) /\ Ch(s, i + 1) \notin {"/", "!", "?"}
    THEN IndexFrom(s, ">", i + 2)
    ELSE 0

\* /<[^>]*\/>/  (validateXMLStructure, analyzeXMLStructure)
MatchSelfClosingLoose(s, i) ==
    IF Ch(s, i) = "<"
    THEN LET j == IndexFrom(s, ">", i + 1)
         IN  IF j >= i + 2 /\ Ch(s, j - 1) = "/" THEN j ELSE 0
    ELSE 0

\* /<\/[^>]*>/  (validateXMLStructure, analyzeXMLStructure)
MatchCloseLoose(s, i) ==
    IF Ch(s, i) = "<" /\ Ch(s, i + 1) = "/"
    THEN IndexFrom(s, ">", i + 2)
    ELSE 0

\* /<[^\/!?][^>]*[^\/]>/  (countTags): the greedy [^>]* first runs up to the
\* next '>', so that [^\/] takes that '>' and a second '>' must follow; on
\* failure it gives back one character, which must not be '/'
MatchOpenStrict(s, i) ==
    IF Ch(s, i) = "<" /\ i + 1 <= Len(s) /\ Ch(s, i + 1) \notin {"/", "!", "?"}
    THEN LET p == IndexFrom(s, ">", i + 2)
         IN  IF p = 0 THEN 0
             ELSE IF Ch(s, p + 1) = ">" THEN p + 1
             ELSE IF p - 1 >= i + 2 /\ Ch(s, p - 1) # "/" THEN p
             ELSE 0
    ELSE 0

\* /<\/[^>]+>/  (countTags)
MatchCloseStrict(s, i) ==
    IF Ch(s, i) = "<" /\ Ch(s, i + 1) = "/"
    THEN LET j == IndexFrom(s, ">", i + 2)
         IN  IF j >= i + 3 THEN j ELSE 0
    ELSE 0

\* /<[^>]+\/>/  (countTags)
MatchSelfClosingStrict(s, i) ==
    IF Ch(s, i) = "<"
    THEN LET p == IndexFrom(s, ">", i + 1)
         IN  IF p >= i + 3 /\ Ch(s, p - 1) = "/" THEN p ELSE 0
    ELSE 0

\* /<\?xml[^>]*\?>/  (countTags)
MatchXmlDeclaration(s, i) ==
    IF Sub(s, i, i + 4) = "<?xml"
    THEN LET p == IndexFrom(s, ">", i + 5)
         IN  IF p >= i + 6 /\ Ch(s, p - 1) = "?" THEN p ELSE 0
    ELSE 0

MatchEnd(kind, s, i) ==
    CASE kind = "allOpen"           -> MatchAllOpen(s, i)
      [] kind = "selfClosingLoose"  -> MatchSelfClosingLoose(s, i)
      [] kind = "closeLoose"        -> MatchCloseLoose(s, i)
      [] kind = "openStrict"        -> MatchOpenStrict(s, i)
      [] kind = "closeStrict"       -> MatchCloseStrict(s, i)
      [] kind = "selfClosingStrict" -> MatchSelfClosingStrict(s, i)
      [] kind = "xmlDeclaration"    -> MatchXmlDeclaration(s, i)

\* (s.match(/.../g) || []).length: leftmost non-overlapping matches; every
\* one of the expressions begins with '<'
RECURSIVE CountFrom(_, _, _)
CountFrom(kind, s, i) ==
    LET lt == IndexFrom(s, "<", i)
        e  == MatchEnd(kind, s, lt)
    IN  IF lt = 0 THEN 0
        ELSE IF e > 0 THEN 1 + CountFrom(kind, s, e + 1)
        ELSE CountFrom(kind, s, lt + 1)

MatchCount(kind, s) == CountFrom(kind, s, 1)

(***************************************************************************)
(* sanitizeXML                                                             *)
(***************************************************************************)

\* index of the n-th double quote at or after position i, 0 if there is none
RECURSIVE NthQuote(_, _, _)
NthQuote(s, i, n) ==
    LET q == IndexFrom(s, "\"", i)
    IN  IF q = 0 THEN 0
        ELSE IF n = 1 THEN q
        ELSE NthQuote(s, q + 1, n - 1)

\* every double quote of t turned into a single quote
QuotesToApos(t) == MapChars("apos", t)

\* first index at or after i that holds no white space (Len(s) + 1 at the end)
RECURSIVE SkipWs(_, _)
SkipWs(s, i) ==
    IF i <= Len(s) /\ Ch(s, i) \in WhiteSpace THEN SkipWs(s, i + 1) ELSE i

\* /="([^"]*)"([^"]*)" ... ([^>]*)/ with n inner quotes (n = 6 and n = 2):
\* the match runs from '="' over the next n quotes up to the next '>'
QuoteRunLast(s, i, n) ==
    IF Ch(s, i) = "=" /\ Ch(s, i + 1) = "\""
    THEN NthQuote(s, i + 2, n)
    ELSE 0

QuoteRunEnd(s, i, n) ==
    LET q == QuoteRunLast(s, i, n)
        g == IndexFrom(s, ">", q + 1)
    IN  IF q = 0 THEN 0 ELSE IF g = 0 THEN Len(s) ELSE g - 1

\* '="$1\'$2\'...$n\'$(n+1)"'
QuoteRunReplacement(s, i, n) ==
    LET q == QuoteRunLast(s, i, n)
        e == QuoteRunEnd(s, i, n)
    IN  "=\"" \o QuotesToApos(Sub(s, i + 2, q)) \o Sub(s, q + 1, e) \o "\""

\* /=("[^"]*[^">])\s*([a-zA-Z])/: the positions the single [^">] can take;
\* the greedy [^"]* makes it the last of them
MissingQuoteStops(s, i) ==
    IF Ch(s, i) = "=" /\ Ch(s, i + 1) = "\""
    THEN LET q  == IndexFrom(s, "\"", i + 2)
             hi == IF q = 0 THEN Len(s) ELSE q - 1
         IN  {m \in (i + 2)..hi :
                  Ch(s, m) # ">" /\ Ch(s, SkipWs(s, m + 1)) \in Letters}
    ELSE {}

MissingQuoteStop(s, i) ==
    LET M == MissingQuoteStops(s, i)
    IN  IF M = {} THEN 0 ELSE CHOOSE m \in M : \A k \in M : k <= m

MissingQuoteEnd(s, i) ==
    LET m == MissingQuoteStop(s, i)
    IN  IF m = 0 THEN 0 ELSE SkipWs(s, m + 1)

\* '="$1" $2', where $1 begins with the opening quote
MissingQuoteReplacement(s, i) ==
    LET m == MissingQuoteStop(s, i)
    IN  "=\"\"" \o Sub(s, i + 2, m) \o "\" " \o Ch(s, MissingQuoteEnd(s, i))

RewriteEnd(rule, s, i) ==
    CASE rule = "quotes6"      -> QuoteRunEnd(s, i, 6)
      [] rule = "quotes2"      -> QuoteRunEnd(s, i, 2)
      [] rule = "missingQuote" -> MissingQuoteEnd(s, i)

RewriteText(rule, s, i) ==
    CASE rule = "quotes6"      -> QuoteRunReplacement(s, i, 6)
      [] rule = "quotes2"      -> QuoteRunReplacement(s, i, 2)
      [] rule = "missingQuote" -> MissingQuoteReplacement(s, i)

\* s.replace(/.../g, ...): leftmost non-overlapping matches are rewritten;
\* every one of the expressions begins with '='
RECURSIVE ReplaceFrom(_, _, _)
ReplaceFrom(rule, s, i) ==
    LET eq == IndexFrom(s, "=", i)
        e  == RewriteEnd(rule, s, eq)
    IN  IF eq = 0 THEN Sub(s, i, Len(s))
        ELSE IF e > 0
        THEN Sub(s, i, eq - 1) \o RewriteText(rule, s, eq)
             \o ReplaceFrom(rule, s, e + 1)
        ELSE Sub(s, i, eq) \o ReplaceFrom(rule, s, eq + 1)

sanitizeXML(xml) ==
    IF xml = "" THEN xml
    ELSE ReplaceFrom("missingQuote",
             ReplaceFrom("quotes2",
                 ReplaceFrom("quotes6", xml, 1), 1), 1)

(***************************************************************************)
(* Validators                                                              *)
(***************************************************************************)

\* JavaScript null in an error field
Null == "<null>"

\* Array.prototype.join
RECURSIVE Join(_, _)
Join(items, sep) ==
    IF Len(items) = 0 THEN ""
    ELSE IF Len(items) = 1 THEN items[1]
    ELSE items[1] \o sep \o Join(Tail(items), sep)

\* The xmldom DOMParser is a library: the set rejects holds the texts on
\* which it raises or reports a parsererror.  An empty source is always
\* rejected.
validateXMLWithParser(xmlString, rejects) ==
    IF xmlString = "" \/ xmlString \in rejects
    THEN [valid |-> FALSE, errors |-> <<"parsererror">>]
    ELSE [valid |-> TRUE, errors |-> <<>>]

countTags(xml) ==
    IF xml = ""
    THEN [openTags |-> 0, closeTags |-> 0, selfClosing |-> 0, valid |-> FALSE]
    ELSE LET openTags    == MatchCount("openStrict", xml)
             closeTags   == MatchCount("closeStrict", xml)
             selfClosing == MatchCount("selfClosingStrict", xml)
         IN  [openTags        |-> openTags,
              closeTags       |-> closeTags,
              selfClosing     |-> selfClosing,
              xmlDeclarations |-> MatchCount("xmlDeclaration", xml),
              valid           |-> (openTags = closeTags),
              balance         |-> openTags - closeTags]

RequiredNamespaces ==
    << "xmlns:bpmn=\"http://www.omg.org/spec/BPMN/20100524/MODEL\"",
       "xmlns:bpmndi=\"http://www.omg.org/spec/BPMN/20100524/DI\"" >>

BpmnElements ==
    <<"startEvent", "endEvent", "task", "userTask", "serviceTask",
      "scriptTask", "gateway">>

\* the element markers are not looked for
validateBPMNSpecificStructure_NoElementCheck(xml) ==
    IF xml = ""
    THEN [valid |-> FALSE, error |-> "XML is empty or not a string"]
    ELSE LET missing == {n \in 1..Len(RequiredNamespaces) :
                             ~Includes(xml, RequiredNamespaces[n])}
         IN
         IF missing # {}
         THEN [valid |-> FALSE,
               error |-> "Missing required namespace: " \o
                         RequiredNamespaces[CHOOSE n \in missing :
                                                \A k \in missing : n <= k]]
         ELSE IF ~Includes(xml, "<bpmn:definitions")
                 \/ ~Includes(xml, "</bpmn:definitions>")
         THEN [valid |-> FALSE, error |-> "Missing BPMN definitions tags"]
         ELSE IF ~Includes(xml, "<bpmn:process")
                 \/ ~Includes(xml, "</bpmn:process>")
         THEN [valid |-> FALSE, error |-> "Missing BPMN process tags"]
         ELSE [valid |-> TRUE, error |-> Null]

validateBPMNSpecificStructure(xml) ==
    IF xml = ""
    THEN [valid |-> FALSE, error |-> "XML is empty or not a string"]
    ELSE LET missing == {n \in 1..Len(RequiredNamespaces) :
                             ~Includes(xml, RequiredNamespaces[n])}
         IN
         IF missing # {}
         THEN [valid |-> FALSE,
               error |-> "Missing required namespace: " \o
                         RequiredNamespaces[CHOOSE n \in missing :
                                                \A k \in missing : n <= k]]
         ELSE IF ~Includes(xml, "<bpmn:definitions")
                 \/ ~Includes(xml, "</bpmn:definitions>")
         THEN [valid |-> FALSE, error |-> "Missing BPMN definitions tags"]
         ELSE IF ~Includes(xml, "<bpmn:process")
                 \/ ~Includes(xml, "</bpmn:process>")
         THEN [valid |-> FALSE, error |-> "Missing BPMN process tags"]
         ELSE IF ~(\E n \in 1..Len(BpmnElements) :
                       Includes(xml, "<bpmn:" \o BpmnElements[n]))
         THEN [valid |-> FALSE, error |-> "No BPMN process elements found"]
         ELSE [valid |-> TRUE, error |-> Null]

\* only the opening marker is looked for
missingMarkers_OpenOnly(xml, open, close) == ~Includes(xml, open)

\* !xml.includes(open) || !xml.includes(close)
missingMarkers(xml, open, close) ==
    ~Includes(xml, open) \/ ~Includes(xml, close)

\* the tag balance is checked before the markers
validateXMLStructure_BalanceFirst(xml) ==
    IF xml = ""
    THEN [valid |-> FALSE, error |-> "XML is empty or not a string"]
    ELSE LET selfClosingTags == MatchCount("selfClosingLoose", xml)
             closeTags       == MatchCount("closeLoose", xml)
             regularOpenTags == MatchCount("allOpen", xml) - selfClosingTags
         IN
         IF regularOpenTags # closeTags
         THEN [valid |-> FALSE,
               error |-> "Unbalanced tags: " \o ToString(regularOpenTags)
                         \o " regular open, " \o ToString(closeTags)
                         \o " close, " \o ToString(selfClosingTags)
                         \o " self-closing. Check for unclosed tags near the end of the XML."]
         ELSE IF missingMarkers(xml, "<bpmn:definitions", "</bpmn:definitions>")
         THEN [valid |-> FALSE, error |-> "Missing BPMN definitions tags"]
         ELSE IF missingMarkers(xml, "<bpmn:process", "</bpmn:process>")
         THEN [valid |-> FALSE, error |-> "Missing BPMN process tags"]
         ELSE IF Includes(xml, "<<") \/ Includes(xml, ">>")
         THEN [valid |-> FALSE,
               error |-> "Invalid XML syntax: double angle brackets"]
         ELSE [valid |-> TRUE, error |-> Null]

validateXMLStructure(xml) ==
    IF xml = ""
    THEN [valid |-> FALSE, error |-> "XML is empty or not a string"]
    ELSE IF missingMarkers(xml, "<bpmn:definitions", "</bpmn:definitions>")
    THEN [valid |-> FALSE, error |-> "Missing BPMN definitions tags"]
    ELSE IF missingMarkers(xml, "<bpmn:process", "</bpmn:process>")
    THEN [valid |-> FALSE, error |-> "Missing BPMN process tags"]
    ELSE LET selfClosingTags == MatchCount("selfClosingLoose", xml)
             allOpenTags     == MatchCount("allOpen", xml)
             closeTags       == MatchCount("closeLoose", xml)
             regularOpenTags == allOpenTags - selfClosingTags
         IN
         IF regularOpenTags # closeTags
         THEN [valid |-> FALSE,
               error |-> "Unbalanced tags: " \o ToString(regularOpenTags)
                         \o " regular open, " \o ToString(closeTags)
                         \o " close, " \o ToString(selfClosingTags)
                         \o " self-closing. Check for unclosed tags near the end of the XML."]
         ELSE IF Includes(xml, "<<") \/ Includes(xml, ">>")
         THEN [valid |-> FALSE,
               error |-> "Invalid XML syntax: double angle brackets"]
         ELSE [valid |-> TRUE, error |-> Null]

\* the message of the Tags component; a result without balance prints NaN
TagsMessage(tagCounts) ==
    IF "balance" \in DOMAIN tagCounts
    THEN (IF tagCounts.balance > 0 THEN "Unclosed tags" ELSE "Extra closing tags")
         \o " (" \o ToString(Abs(tagCounts.balance)) \o ")"
    ELSE "Extra closing tags (NaN)"

\* the messages are pushed in another order
validationErrors_ParserFirst(basicValidation, parserValidation, tagCounts, bpmnValidation) ==
    (IF ~parserValidation.valid
     THEN <<"Parser: " \o Join(parserValidation.errors, ", ")>> ELSE <<>>)
    \o (IF ~basicValidation.valid
        THEN <<"Basic: " \o basicValidation.error>> ELSE <<>>)
    \o (IF ~tagCounts.valid
        THEN <<"Tags: " \o TagsMessage(tagCounts)>> ELSE <<>>)
    \o (IF ~bpmnValidation.valid
        THEN <<"BPMN: " \o bpmnValidation.error>> ELSE <<>>)

\* errors: the messages of the components that failed, as they are pushed
validationErrors(basicValidation, parserValidation, tagCounts, bpmnValidation) ==
    (IF ~basicValidation.valid
     THEN <<"Basic: " \o basicValidation.error>> ELSE <<>>)
    \o (IF ~parserValidation.valid
        THEN <<"Parser: " \o Join(parserValidation.errors, ", ")>> ELSE <<>>)
    \o (IF ~tagCounts.valid
        THEN <<"Tags: " \o TagsMessage(tagCounts)>> ELSE <<>>)
    \o (IF ~bpmnValidation.valid
        THEN <<"BPMN: " \o bpmnValidation.error>> ELSE <<>>)

\* the verdict of the tag counts is left out of the overall verdict
validationResult_TagsIgnored(basicValidation, parserValidation, tagCounts, bpmnValidation) ==
    LET isValid == /\ basicValidation.valid
                   /\ parserValidation.valid
                   /\ bpmnValidation.valid
    IN  [valid   |-> isValid,
         error   |-> IF isValid THEN ""
                     ELSE Join(validationErrors(basicValidation,
                                   parserValidation, tagCounts, bpmnValidation),
                               " | "),
         details |-> [basic  |-> basicValidation,
                      parser |-> parserValidation,
                      tags   |-> tagCounts,
                      bpmn   |-> bpmnValidation]]

\* the result assembled from the results of the four components
validationResult(basicValidation, parserValidation, tagCounts, bpmnValidation) ==
    LET isValid == /\ basicValidation.valid
                   /\ parserValidation.valid
                   /\ tagCounts.valid
                   /\ bpmnValidation.valid
    IN  [valid   |-> isValid,
         error   |-> IF isValid THEN ""
                     ELSE Join(validationErrors(basicValidation,
                                   parserValidation, tagCounts, bpmnValidation),
                               " | "),
         details |-> [basic  |-> basicValidation,
                      parser |-> parserValidation,
                      tags   |-> tagCounts,
                      bpmn   |-> bpmnValidation]]

comprehensiveXMLValidation(xml, rejects) ==
    validationResult(validateXMLStructure(xml),
                     validateXMLWithParser(xml, rejects),
                     countTags(xml),
                     validateBPMNSpecificStructure(xml))

(***************************************************************************)
(* The model's answer: JSON, optionally in a fenced code block             *)
(***************************************************************************)

\* a JSON value that is not a string where a document text is expected
NotAString == "<not a string>"

\* JSON string escaping of JSON.stringify / JSON.parse
JsonEscape(t) == MapChars("json", t)

JsonMember(key, value) == "\"" \o key \o "\":\"" \o JsonEscape(value) \o "\""

\* the members xmlBatch1 .. xmlBatchN that are present
RECURSIVE JsonBatchMembers(_, _)
JsonBatchMembers(parts, i) ==
    IF i > Len(parts) THEN <<>>
    ELSE (IF parts[i] = "" THEN <<>>
          ELSE <<JsonMember("xmlBatch" \o ToString(i), parts[i])>>)
         \o JsonBatchMembers(parts, i + 1)

\* the JSON source text of a value; absent members are left out
JsonText(v) ==
    CASE v.kind = "null"   -> "null"
      [] v.kind = "scalar" -> "5"
      [] v.kind = "object" ->
           "{" \o Join(
               (IF v.nonText THEN <<"\"updatedDiagramXML\":5">>
                ELSE IF v.updatedDiagramXML = "" THEN <<>>
                ELSE <<JsonMember("updatedDiagramXML", v.updatedDiagramXML)>>)
               \o (IF v.response = "" THEN <<>>
                   ELSE <<JsonMember("response", v.response)>>)
               \o (IF v.impactAnalysis = "" THEN <<>>
                   ELSE <<JsonMember("impactAnalysis", v.impactAnalysis)>>)
               \o (IF v.xmlBatched THEN <<"\"xmlBatched\":true">> ELSE <<>>)
               \o (IF v.xmlBatchCount = 0 THEN <<>>
                   ELSE <<"\"xmlBatchCount\":" \o ToString(v.xmlBatchCount)>>)
               \o JsonBatchMembers(v.xmlBatch, 1),
               ",") \o "}"

JsonObject(xml, response, impact) ==
    [kind |-> "object", updatedDiagramXML |-> xml, nonText |-> FALSE,
     response |-> response, impactAnalysis |-> impact,
     xmlBatched |-> FALSE, xmlBatchCount |-> 0, xmlBatch |-> <<>>]

JsonNull   == [JsonObject("", "", "") EXCEPT !.kind = "null"]
JsonScalar == [JsonObject("", "", "") EXCEPT !.kind = "scalar"]

\* The grave accent (U+0060) cannot be written in a TLA+ string: the
\* character ~, which occurs nowhere else in the texts, stands for it.
FenceOpen  == "~~~json\n"
FenceClose == "\n~~~"

\* a markdown fenced code block
Fence(body) == FenceOpen \o body \o FenceClose

\* the pattern anchored at the start of the text
FencedJson_Anchored(text) ==
    LET b == IndexOfLit(text, FenceClose, 9)
    IN  IF Sub(text, 1, 8) # FenceOpen \/ b = 0 THEN "" ELSE Sub(text, 9, b - 1)

\* the first group of text.match(/<fence>json\n([\s\S]*?)\n<fence>/), ""
\* when there is no match
FencedJson(text) ==
    LET a == IndexOfLit(text, FenceOpen, 1)
        b == IF a = 0 THEN 0 ELSE IndexOfLit(text, FenceClose, a + 8)
    IN  IF b = 0 THEN "" ELSE Sub(text, a + 8, b - 1)

\* JSON.parse over the JSON values of universe: src parses to the value it
\* is the source text of, and is a syntax error otherwise
JSONParse(src, universe) ==
    LET hits == {v \in universe : JsonText(v) = src}
    IN  IF hits = {} THEN [ok |-> FALSE, value |-> JsonNull]
        ELSE [ok |-> TRUE, value |-> CHOOSE v \in hits : TRUE]

(***************************************************************************)
(* POST /api/chat: what the handler does with the provider's answer        *)
(***************************************************************************)

RebuildHead ==
    "<?xml version=\"1.0\" encoding=\"UTF-8\"?>\n<bpmn:definitions xmlns:xsi=\"http://www.w3.org/2001/XMLSchema-instance\" \n                  xmlns:bpmn=\"http://www.omg.org/spec/BPMN/20100524/MODEL\" \n                  xmlns:bpmndi=\"http://www.omg.org/spec/BPMN/20100524/DI\" \n                  xmlns:dc=\"http://www.omg.org/spec/DD/20100524/DC\" \n                  xmlns:di=\"http://www.omg.org/spec/DD/20100524/DI\" \n                  id=\"Definitions_1\" \n                  targetNamespace=\"http://bpmn.io/schema/bpmn\">\n  "

RebuildTail ==
    "\n  <bpmndi:BPMNDiagram id=\"BPMNDiagram_1\">\n    <bpmndi:BPMNPlane id=\"BPMNPlane_1\" bpmnElement=\"Process_1\">\n    </bpmndi:BPMNPlane>\n  </bpmndi:BPMNDiagram>\n</bpmn:definitions>"

SimplifiedNote == " [Note: Diagram layout was simplified due to XML issues]"

\* the note without the diagnostic of the validation
InvalidNote_NoDiagnostic(error) ==
    " [Note: Generated XML was invalid and could not be repaired, keeping original diagram]"

InvalidNote(error) ==
    " [Note: Generated XML was invalid and could not be repaired (" \o error
    \o "), keeping original diagram]"

ParseFailureNotice(text) ==
    "Error: Could not parse AI response. Raw response: " \o text

NoResponseText == "No specific response provided."
TimeoutText ==
    "Request timeout - AI took too long to respond. Please try with a simpler request or try again."
ErrorText == "Error: Failed to get response from AI. Please try again."

\* xmlToValidate.match(/<bpmn:process[\s\S]*?<\/bpmn:process>/)[0], "" when
\* there is no match
processMatch(xml) ==
    LET a == IndexOfLit(xml, "<bpmn:process", 1)
        b == IF a = 0 THEN 0 ELSE IndexOfLit(xml, "</bpmn:process>", a + 13)
    IN  IF b = 0 THEN "" ELSE Sub(xml, a, b + 14)

Stages == {"original", "sanitized", "rebuilt"}

Attempt(strategy, xml, validation) ==
    [strategy |-> strategy, xml |-> xml,
     valid |-> validation.valid, error |-> validation.error]

\* the document rebuilt around the process section (the template of the
\* handler)
rebuiltXML(section) == RebuildHead \o section \o RebuildTail

\* The texts on which the DOM parser reports an error.  parserFails is the
\* set of stages at whose text it does; a text gets the same verdict
\* wherever it is validated.
parserRejects(candidate, sanitized, rebuilt, parserFails) ==
    (IF "original" \in parserFails THEN {candidate} ELSE {})
    \cup (IF "sanitized" \in parserFails THEN {sanitized} ELSE {})
    \cup (IF "rebuilt" \in parserFails THEN {rebuilt} ELSE {})

\* The candidates of the repair strategies and their validations.
RepairValidations(candidate, sanitized, section, parserFails) ==
    LET rebuilt == rebuiltXML(section)
        rejects == parserRejects(candidate, sanitized, rebuilt, parserFails)
    IN  [sanitized |-> sanitized, section |-> section, rebuilt |-> rebuilt,
         v1 |-> comprehensiveXMLValidation(candidate, rejects),
         v2 |-> comprehensiveXMLValidation(sanitized, rejects),
         v3 |-> comprehensiveXMLValidation(rebuilt, rejects)]

RepairSanitized(candidate, sanitized, parserFails) ==
    RepairValidations(candidate, sanitized, processMatch(sanitized),
                      parserFails)

RepairStages(candidate, parserFails) ==
    RepairSanitized(candidate, sanitizeXML(candidate), parserFails)

\* the condition of the single-provider server: only on a quote error
shouldSanitize_QuoteOnly(validation) ==
    ~validation.valid /\ Includes(validation.error, "quote")

\* the condition under which the repair strategies start
shouldSanitize(validation) == ~validation.valid

\* the sanitizer runs before anything is validated
RepairStrategies_SanitizeFirst(candidate, s) ==
    LET a2 == Attempt("sanitized", s.sanitized, s.v2)
        a3 == Attempt("rebuilt", s.rebuilt, s.v3)
    IN
    IF ~s.v2.valid /\ Includes(s.sanitized, "<bpmn:process") /\ s.section # ""
    THEN [attempts |-> <<a2, a3>>, xmlToValidate |-> s.rebuilt,
          validation |-> s.v3, rebuilt |-> TRUE]
    ELSE [attempts |-> <<a2>>, xmlToValidate |-> s.sanitized,
          validation |-> s.v2, rebuilt |-> FALSE]

\* The validation and repair of a candidate document text; s holds the
\* candidates of the strategies and their validations.
RepairStrategies(candidate, s) ==
    LET a1 == Attempt("original", candidate, s.v1)
        a2 == Attempt("sanitized", s.sanitized, s.v2)
        a3 == Attempt("rebuilt", s.rebuilt, s.v3)
    IN
    IF ~shouldSanitize(s.v1)
    THEN [attempts |-> <<a1>>, xmlToValidate |-> candidate,
          validation |-> s.v1, rebuilt |-> FALSE]
    ELSE IF ~s.v2.valid /\ Includes(s.sanitized, "<bpmn:process")
            /\ s.section # ""
    THEN [attempts |-> <<a1, a2, a3>>, xmlToValidate |-> s.rebuilt,
          validation |-> s.v3, rebuilt |-> TRUE]
    ELSE [attempts |-> <<a1, a2>>, xmlToValidate |-> s.sanitized,
          validation |-> s.v2, rebuilt |-> FALSE]

\* the last candidate is returned whether or not it passed
finalXML_Unchecked(diagramXML, xmlToValidate, validation) == xmlToValidate

\* finalXML: the original diagram unless the last validation passed
finalXML(diagramXML, xmlToValidate, validation) ==
    IF validation.valid THEN xmlToValidate ELSE diagramXML

\* the simplification note is added as soon as a rebuild was attempted
repairNote_WheneverRebuilt(validation, rebuilt) ==
    IF rebuilt THEN SimplifiedNote
    ELSE IF validation.valid THEN "" ELSE InvalidNote(validation.error)

\* the note appended to llmResponse.response by the repair code
repairNote(validation, rebuilt) ==
    IF validation.valid
    THEN (IF rebuilt THEN SimplifiedNote ELSE "")
    ELSE InvalidNote(validation.error)

\* the parts are appended from the last index to the first
reconstructedXML_Reversed(v) ==
    LET RECURSIVE Parts(_)
        Parts(i) ==
            IF i < 1 THEN ""
            ELSE (IF i <= Len(v.xmlBatch) THEN v.xmlBatch[i] ELSE "")
                 \o Parts(i - 1)
    IN  Parts(v.xmlBatchCount)

\* reconstructedXML: the parts xmlBatch1 .. xmlBatch<count> that are present,
\* appended in index order
reconstructedXML(v) ==
    LET RECURSIVE Parts(_)
        Parts(i) ==
            IF i > v.xmlBatchCount THEN ""
            ELSE (IF i <= Len(v.xmlBatch) THEN v.xmlBatch[i] ELSE "")
                 \o Parts(i + 1)
    IN  Parts(1)

\* a reconstruction with a part missing is dropped
batchedDocument_OnlyWhenComplete(v, reconstructed) ==
    IF reconstructed # ""
       /\ Len(v.xmlBatch) >= v.xmlBatchCount
       /\ \A i \in 1..v.xmlBatchCount : v.xmlBatch[i] # ""
    THEN [v EXCEPT !.updatedDiagramXML = reconstructed, !.nonText = FALSE]
    ELSE v

\* if (reconstructedXML) llmResponse.updatedDiagramXML = reconstructedXML
batchedDocument(v, reconstructed) ==
    IF reconstructed # ""
    THEN [v EXCEPT !.updatedDiagramXML = reconstructed, !.nonText = FALSE]
    ELSE v

\* the text handed to JSON.parse
jsonSource(text) ==
    LET jsonMatch == FencedJson(text)
    IN  IF jsonMatch # "" THEN jsonMatch ELSE text

\* llmResponse for the outcome parsed of JSON.parse
llmResponseOf(parsed, text, diagramXML) ==
    LET v == parsed.value
    IN
    IF ~parsed.ok \/ v.kind = "null"
    THEN [JsonObject(diagramXML, "", ParseFailureNotice(text))
             EXCEPT !.kind = "fallback"]
    ELSE IF v.kind = "scalar" THEN v
    ELSE IF v.xmlBatched /\ v.xmlBatchCount # 0
    THEN batchedDocument(v, reconstructedXML(v))
    ELSE v

llmResponse(text, diagramXML, universe) ==
    llmResponseOf(JSONParse(jsonSource(text), universe), text, diagramXML)

\* response of the success send: response, else impactAnalysis, else the
\* default text
responseText(llm, response) ==
    IF response # "" THEN response
    ELSE IF llm.impactAnalysis # "" THEN llm.impactAnalysis
    ELSE NoResponseText

\* the body of the success response without a candidate document
unchangedAnswer(llm, diagramXML) ==
    [threw |-> FALSE, llm |-> llm, attempts |-> <<>>,
     response |-> responseText(llm, llm.response),
     updatedDiagramXML |-> diagramXML]

\* the body of the success response after the repair strategies returned r
validatedAnswer(llm, diagramXML, r) ==
    [threw |-> FALSE, llm |-> llm, attempts |-> r.attempts,
     response |-> responseText(llm, llm.response
                                    \o repairNote(r.validation, r.rebuilt)),
     updatedDiagramXML |-> finalXML(diagramXML, r.xmlToValidate, r.validation)]

\* a truthy updatedDiagramXML that is not a string fails both validations
\* and sanitizeXML returns it as it is; xmlToValidate.includes then throws
thrownAnswer(llm, diagramXML, v) ==
    [threw |-> TRUE, llm |-> llm,
     attempts |-> <<Attempt("original", NotAString, v),
                    Attempt("sanitized", NotAString, v)>>,
     response |-> "", updatedDiagramXML |-> diagramXML]

\* the try block for the llmResponse llm
ProcessResponse(llm, diagramXML, parserFails) ==
    IF llm.nonText
    THEN thrownAnswer(llm, diagramXML, comprehensiveXMLValidation("", {}))
    ELSE IF llm.updatedDiagramXML = ""
    THEN unchangedAnswer(llm, diagramXML)
    ELSE validatedAnswer(llm, diagramXML,
             RepairStrategies(llm.updatedDiagramXML,
                              RepairStages(llm.updatedDiagramXML, parserFails)))

\* The try block after the provider's answer: the result is the body of
\* the success response, or threw when an exception reaches the catch.
ProcessAnswer(text, diagramXML, parserFails, universe) ==
    ProcessResponse(llmResponse(text, diagramXML, universe), diagramXML,
                    parserFails)

(***************************************************************************)
(* The document texts, model answers and request bodies that are explored  *)
(***************************************************************************)

DefinitionsOpen ==
    "<bpmn:definitions " \o RequiredNamespaces[1] \o " "
    \o RequiredNamespaces[2] \o ">"

\* the caller's diagram
CallerDoc ==
    DefinitionsOpen
    \o "<bpmn:process><bpmn:userTask/></bpmn:process></bpmn:definitions>"

\* a caller's diagram that lost its closing definitions tag
CallerBrokenDoc ==
    DefinitionsOpen \o "<bpmn:process><bpmn:userTask/></bpmn:process>"

\* a document that passes every validator
GoodDoc ==
    DefinitionsOpen
    \o "<bpmn:process><bpmn:startEvent/><bpmn:endEvent/></bpmn:process>"
    \o "</bpmn:definitions>"

\* a document that passes every validator and has attributes in its process
AttributedDoc ==
    DefinitionsOpen
    \o "<bpmn:process id=\"Process_1\"><bpmn:task id=\"Task_1\"/></bpmn:process>"
    \o "</bpmn:definitions>"

\* a truncated answer: the closing definitions tag is missing
TruncatedDoc ==
    DefinitionsOpen
    \o "<bpmn:process><bpmn:startEvent/><bpmn:endEvent/></bpmn:process>"

\* a process section without any element
EmptyProcessDoc ==
    DefinitionsOpen \o "<bpmn:process></bpmn:process>"

\* a process section that is never closed
OpenProcessDoc ==
    DefinitionsOpen \o "<bpmn:process><bpmn:task/></bpmn:definitions>"

\* balanced markup without any of the required markers
NoMarkersDoc == "<root><a></a></root>"

CallerDocs == {"", CallerDoc, CallerBrokenDoc}

Batched(v, count, parts) ==
    [v EXCEPT !.xmlBatched = TRUE, !.xmlBatchCount = count, !.xmlBatch = parts]

GoodPart1 == SubSeq(GoodDoc, 1, 150)
GoodPart2 == SubSeq(GoodDoc, 151, Len(GoodDoc))

\* a document in three parts; without the second part the process section
\* has no element
ThreePartDoc ==
    <<DefinitionsOpen \o "<bpmn:process>",
      "<bpmn:startEvent/><bpmn:endEvent/>",
      "</bpmn:process></bpmn:definitions>">>

\* the JSON values the model answers with
JsonValues ==
    { JsonObject(GoodDoc, "Created the diagram.", ""),
      JsonObject(GoodDoc, "", ""),
      JsonObject(AttributedDoc, "Added a task.", "One task added."),
      JsonObject(TruncatedDoc, "Created the diagram.", ""),
      JsonObject(TruncatedDoc, "", "One task added."),
      JsonObject(EmptyProcessDoc, "Created the diagram.", ""),
      JsonObject(OpenProcessDoc, "", ""),
      JsonObject(NoMarkersDoc, "Created the diagram.", ""),
      JsonObject("", "This diagram has one task.", ""),
      JsonObject("", "", ""),
      [JsonObject("", "Created the diagram.", "") EXCEPT !.nonText = TRUE],
      Batched(JsonObject("", "Created the diagram.", ""), 2,
              <<GoodPart1, GoodPart2>>),
      Batched(JsonObject(NoMarkersDoc, "Created the diagram.", ""), 2,
              <<GoodPart1, GoodPart2>>),
      Batched(JsonObject("", "Created the diagram.", ""), 2, <<GoodPart1>>),
      Batched(JsonObject(GoodDoc, "Created the diagram.", ""), 2, <<>>),
      Batched(JsonObject(GoodDoc, "Created the diagram.", ""), 3,
              <<ThreePartDoc[1], "", ThreePartDoc[3]>>),
      JsonNull,
      JsonScalar }

\* the texts the provider resolves with: JSON in a fenced block (with or
\* without prose around it), bare JSON, and text that is not JSON
ModelTexts ==
    {Fence(JsonText(v)) : v \in JsonValues}
    \cup {JsonText(JsonObject(GoodDoc, "Created the diagram.", "")),
          "Here is the diagram:\n"
              \o Fence(JsonText(JsonObject(GoodDoc, "Created the diagram.", ""))),
          "Here is the diagram: "
              \o JsonText(JsonObject(GoodDoc, "Created the diagram.", "")),
          Fence("{\"updatedDiagramXML\": "),
          "I cannot help with that."}

\* a member that the request body lacks
Undefined == "<undefined>"

\* req.body of POST /api/chat
Bodies ==
    [diagramXML : CallerDocs,
     prompt : {"Add a review task", Undefined},
     selectedElementIds : {"[]", Undefined},
     aiProvider : {Undefined, "openai"}]

(***************************************************************************)
(* The request handler as a state machine.  One step is one run of the     *)
(* event loop: the synchronous start of the handler, the timer callback,   *)
(* or the continuation of the handler after the awaited provider call.     *)
(***************************************************************************)

VARIABLES
    body,             \* req.body of each request
    pc,               \* "idle", "awaiting" (at await generateResponse), "done"
    timer,            \* the 45 s timeout: "none", "armed", "fired", "cleared"
    responseHandled,  \* the handler's responseHandled flag
    sent,             \* the HTTP responses written for each request, in order
    outcome,          \* how the provider call of each request settled
    server,           \* the server process: its phase, environment, providers
    check,            \* a document text under validation and its results
    ui                \* the React component App of the frontend

vars == <<body, pc, timer, responseHandled, sent, outcome, server, check, ui>>

Requests == {1, 2}

NoBody ==
    [diagramXML |-> "", prompt |-> Undefined, selectedElementIds |-> Undefined,
     aiProvider |-> Undefined]

NoOutcome ==
    [kind |-> "pending", text |-> "", parserFails |-> {}, attempts |-> <<>>,
     discarded |-> FALSE, calls |-> 0, called |-> <<>>]

\* one flag for all the requests
headersSent_Shared(r) == \E q \in Requests : Len(sent[q]) > 0

\* res.headersSent
headersSent(r) == Len(sent[r]) > 0

\* res.status(status).json({response, updatedDiagramXML})
ChatResponse(status, response, xml) ==
    [status |-> status, response |-> response, updatedDiagramXML |-> xml,
     document |-> TRUE]

\* the body the global error handler writes: {error, message}
InternalErrorResponse ==
    [status |-> 500, response |-> "Internal server error",
     updatedDiagramXML |-> "", document |-> FALSE]

(***************************************************************************)
(* Process startup: the module-level code of the server                    *)
(***************************************************************************)

\* the providers in the order in which initializeAIClients adds its clients
ProviderOrder == <<"anthropic", "openai", "gemini", "groq">>

\* the environment variable that holds the credential of a provider
ApiKeyOf(provider) ==
    CASE provider = "anthropic" -> "ANTHROPIC_API_KEY"
      [] provider = "openai"    -> "OPENAI_API_KEY"
      [] provider = "gemini"    -> "GEMINI_API_KEY"
      [] provider = "groq"      -> "GROQ_API_KEY"

ApiKeys == {ApiKeyOf(ProviderOrder[i]) : i \in 1..Len(ProviderOrder)}

\* process.env: the credentials that are set to a non-empty value, and
\* whether the constructor of the Gemini client throws
Environments == [keys : SUBSET ApiKeys, geminiThrows : BOOLEAN]

\* the clients object: a client for every provider whose credential is set;
\* a Gemini client whose constructor throws is left out
initializeAIClients(env) ==
    [p \in {q \in {ProviderOrder[i] : i \in 1..Len(ProviderOrder)} :
                /\ ApiKeyOf(q) \in env.keys
                /\ ~(q = "gemini" /\ env.geminiThrows)} |-> "client"]

\* Object.keys(clients): the keys in insertion order
getAvailableProviders(clients) ==
    SelectSeq(ProviderOrder, LAMBDA p : p \in DOMAIN clients)

\* the process before the module-level code has run
StartingServer(env) ==
    [phase |-> "starting", env |-> env, availableProviders |-> <<>>,
     exit |-> <<>>]

\* a server that listens with the providers of env
ListeningServer(env) ==
    [phase |-> "listening", env |-> env,
     availableProviders |-> getAvailableProviders(initializeAIClients(env)),
     exit |-> <<>>]

\* the providers of the switch in generateResponse
SupportedProviders == {ProviderOrder[i] : i \in 1..Len(ProviderOrder)}

\* a provider that is not available is replaced by the first available one
provider_FirstAvailable(aiProvider, availableProviders) ==
    IF aiProvider \in {Undefined, ""}
       \/ \A i \in 1..Len(availableProviders) : availableProviders[i] # aiProvider
    THEN availableProviders[1]
    ELSE aiProvider

\* const provider = req.body.aiProvider || availableProviders[0]
provider(aiProvider, availableProviders) ==
    IF aiProvider \in {Undefined, ""} THEN availableProviders[1]
    ELSE aiProvider

\* generateResponse throws before any client is called: the provider is
\* not a case of the switch, or its client was not initialized
generateResponseThrows(clients, p) ==
    ~(p \in SupportedProviders /\ p \in DOMAIN clients)

\* no document text is under validation
NoCheck == [phase |-> "none"]

\* no frontend is attached
NoUi == [phase |-> "none"]

Init ==
    /\ server = ListeningServer([keys |-> {"ANTHROPIC_API_KEY"},
                                 geminiThrows |-> FALSE])
    /\ check = NoCheck
    /\ ui = NoUi
    /\ body = [r \in Requests |-> NoBody]
    /\ pc = [r \in Requests |-> "idle"]
    /\ timer = [r \in Requests |-> "none"]
    /\ responseHandled = [r \in Requests |-> FALSE]
    /\ sent = [r \in Requests |-> <<>>]
    /\ outcome = [r \in Requests |-> NoOutcome]

\* the timer is left armed
clearTimeout_Forgotten(r) == timer[r]

\* clearTimeout(timeout)
clearTimeout(r) == IF timer[r] = "armed" THEN "cleared" ELSE timer[r]

\* The handler starts: it arms the timer, builds the prompt and calls the
\* provider.  generateBPMNPrompt reads selectedElementIds.length and the
\* handler reads prompt.substring before the try block: without them the
\* handler's promise rejects and Express passes the error to the global
\* error handler, while the timer stays armed.  When generateResponse throws
\* for the provider that was picked, its promise is rejected already and
\* the catch block runs before any timer callback can: the error response
\* is part of the same step.
Receive(r, bodies) ==
    \E b \in bodies :
        /\ server.phase = "listening"
        /\ pc[r] = "idle"
        /\ body' = [body EXCEPT ![r] = b]
        /\ IF b.selectedElementIds = Undefined \/ b.prompt = Undefined
           THEN /\ pc' = [pc EXCEPT ![r] = "done"]
                /\ timer' = [timer EXCEPT ![r] = "armed"]
                /\ sent' = [sent EXCEPT ![r] = Append(@, InternalErrorResponse)]
                /\ outcome' = [outcome EXCEPT ![r].kind = "not called"]
                /\ UNCHANGED responseHandled
           ELSE \E p \in {provider(b.aiProvider, server.availableProviders)} :
                IF generateResponseThrows(initializeAIClients(server.env), p)
                THEN /\ pc' = [pc EXCEPT ![r] = "done"]
                     /\ timer' = [timer EXCEPT ![r] = "cleared"]
                     /\ outcome' = [outcome EXCEPT ![r].kind = "rejected",
                                                   ![r].calls = @ + 1]
                     /\ responseHandled' = [responseHandled EXCEPT ![r] = TRUE]
                     /\ sent' = [sent EXCEPT ![r] =
                            Append(@, ChatResponse(500, ErrorText, b.diagramXML))]
                ELSE /\ pc' = [pc EXCEPT ![r] = "awaiting"]
                     /\ timer' = [timer EXCEPT ![r] = "armed"]
                     /\ outcome' = [outcome EXCEPT ![r].calls = @ + 1,
                                                   ![r].called = Append(@, p)]
                     /\ UNCHANGED <<responseHandled, sent>>
        /\ UNCHANGED <<server, check, ui>>

\* a send site that does not look at responseHandled and headersSent
MaySend_Unguarded(r) == TRUE

\* the guard of the three send sites
MaySend(r) == ~responseHandled[r] /\ ~headersSent(r)

\* The callback of setTimeout(..., 45000).
TimerFire(r) ==
    /\ timer[r] = "armed"
    /\ timer' = [timer EXCEPT ![r] = "fired"]
    /\ IF MaySend(r)
       THEN /\ responseHandled' = [responseHandled EXCEPT ![r] = TRUE]
            /\ sent' = [sent EXCEPT ![r] =
                   Append(@, ChatResponse(408, TimeoutText, body[r].diagramXML))]
       ELSE UNCHANGED <<responseHandled, sent>>
    /\ UNCHANGED <<body, pc, outcome, server, check, ui>>

\* an error response that leaves the document out
CatchAndRespond_NoDocument(r) ==
    IF MaySend(r)
    THEN /\ responseHandled' = [responseHandled EXCEPT ![r] = TRUE]
         /\ sent' = [sent EXCEPT ![r] =
                Append(@, ChatResponse(500, ErrorText, ""))]
    ELSE UNCHANGED <<responseHandled, sent>>

\* The catch block of the handler.
CatchAndRespond(r) ==
    IF MaySend(r)
    THEN /\ responseHandled' = [responseHandled EXCEPT ![r] = TRUE]
         /\ sent' = [sent EXCEPT ![r] =
                Append(@, ChatResponse(500, ErrorText, body[r].diagramXML))]
    ELSE UNCHANGED <<responseHandled, sent>>

\* the late answer is not detected
AlreadySent_Never(r) == FALSE

\* the check after the await: the timer callback has answered already
AlreadySent(r) == responseHandled[r] \/ headersSent(r)

\* generateResponse resolves with text: the rest of the try block runs.
ProviderResolve(r, texts, failSets) ==
    \E text \in texts, parserFails \in failSets :
        /\ pc[r] = "awaiting"
        /\ pc' = [pc EXCEPT ![r] = "done"]
        /\ timer' = [timer EXCEPT ![r] = clearTimeout(r)]
        /\ IF AlreadySent(r)
           THEN /\ outcome' = [outcome EXCEPT ![r] =
                       [@ EXCEPT !.kind = "resolved", !.text = text,
                                 !.discarded = TRUE]]
                /\ UNCHANGED <<responseHandled, sent>>
           ELSE \E a \in {ProcessAnswer(text, body[r].diagramXML, parserFails,
                                         JsonValues)} :
                    /\ outcome' = [outcome EXCEPT ![r] =
                           [@ EXCEPT
                               !.kind = IF a.threw THEN "threw" ELSE "resolved",
                               !.text = text, !.parserFails = parserFails,
                               !.attempts = a.attempts]]
                    /\ IF a.threw
                       THEN CatchAndRespond(r)
                       ELSE IF MaySend(r)
                       THEN /\ responseHandled' =
                                   [responseHandled EXCEPT ![r] = TRUE]
                            /\ sent' = [sent EXCEPT ![r] =
                                   Append(@, ChatResponse(200, a.response,
                                                          a.updatedDiagramXML))]
                       ELSE UNCHANGED <<responseHandled, sent>>
        /\ UNCHANGED <<body, server, check, ui>>

\* a rejected provider call is tried once more before the catch block runs
ProviderReject_Retry(r) ==
    /\ pc[r] = "awaiting"
    /\ IF outcome[r].calls < 2
       THEN /\ outcome' = [outcome EXCEPT ![r].calls = @ + 1,
                                          ![r].called = Append(@, @[1])]
            /\ UNCHANGED <<pc, timer, responseHandled, sent>>
       ELSE /\ pc' = [pc EXCEPT ![r] = "done"]
            /\ timer' = [timer EXCEPT ![r] = clearTimeout(r)]
            /\ outcome' = [outcome EXCEPT ![r].kind = "rejected"]
            /\ CatchAndRespond(r)
    /\ UNCHANGED <<body, server, check, ui>>

\* generateResponse rejects: the catch block runs.
ProviderReject(r) ==
    /\ pc[r] = "awaiting"
    /\ pc' = [pc EXCEPT ![r] = "done"]
    /\ timer' = [timer EXCEPT ![r] = clearTimeout(r)]
    /\ outcome' = [outcome EXCEPT ![r].kind = "rejected"]
    /\ CatchAndRespond(r)
    /\ UNCHANGED <<body, server, check, ui>>

ParserFailSets == SUBSET Stages

Next ==
    \E r \in {1} :
        \/ Receive(r, Bodies)
        \/ TimerFire(r)
        \/ ProviderResolve(r, ModelTexts, ParserFailSets)
        \/ ProviderReject(r)

Spec == Init /\ [][Next]_vars

(***************************************************************************)
(* Properties                                                              *)
(***************************************************************************)

EndsWith(s, suffix) ==
    /\ Len(s) >= Len(suffix)
    /\ SubSeq(s, Len(s) - Len(suffix) + 1, Len(s)) = suffix

\* the provider's answer of request r went through the try block
Processed(r) == outcome[r].kind = "resolved" /\ ~outcome[r].discarded

\* the validations run for request r, in order
Attempts(r) == outcome[r].attempts

LastAttempt(r) == Attempts(r)[Len(Attempts(r))]

\* C1: in every step and for every request, at most one HTTP response has
\* been written, and a response of one of the three send sites (408, 200,
\* 500 with a document) is written only when responseHandled was false and
\* no header was sent, with responseHandled set by the same step.
C1_AtMostOneResponse ==
    [][\A r \in Requests :
          /\ Len(sent'[r]) <= 1
          /\ (Len(sent'[r]) > Len(sent[r])
              /\ sent'[r][Len(sent'[r])].document)
             => (~responseHandled[r] /\ sent[r] = <<>> /\ responseHandled'[r])
      ]_vars

\* the timer fired first and the provider's late answer found the response
\* already sent
C1_Witness ==
    \E r \in Requests :
        /\ timer[r] = "fired"
        /\ pc[r] = "done"
        /\ outcome[r].kind \in {"resolved", "rejected"}
        /\ Len(sent[r]) = 1

\* C2: when the timer fires while the provider call is pending, the one
\* response is the 408 timeout response carrying the request's diagramXML;
\* the provider's later answer is discarded unprocessed (nothing is parsed
\* or validated) and adds no response.
C2_TimeoutKeepsOriginal ==
    \A r \in Requests :
        (timer[r] = "fired" /\ outcome[r].kind # "not called")
        => /\ Len(sent[r]) = 1
           /\ sent[r][1].status = 408
           /\ sent[r][1].document
           /\ sent[r][1].updatedDiagramXML = body[r].diagramXML
           /\ outcome[r].kind \in {"pending", "resolved", "rejected"}
           /\ outcome[r].kind = "resolved"
              => (outcome[r].discarded /\ Attempts(r) = <<>>)

\* the provider call was not aborted: its answer arrived after the timeout
C2_Witness ==
    \E r \in Requests :
        /\ timer[r] = "fired"
        /\ outcome[r].kind = "resolved"
        /\ outcome[r].discarded
        /\ body[r].diagramXML = CallerDoc

\* C3: every request for which nothing is pending any more (the handler has
\* run and the timer is no longer armed) has received a response, and every
\* response carries a document and a message.
C3_AlwaysAnsweredWithDocument ==
    \A r \in Requests :
        /\ (pc[r] # "idle" /\ timer[r] # "armed") => Len(sent[r]) >= 1
        /\ \A i \in 1..Len(sent[r]) :
               sent[r][i].document /\ sent[r][i].response # ""

\* C4: a provider call that rejects before any response was sent is
\* answered with status 500 and the caller's diagramXML.
C4_ProviderFailureKeepsOriginal ==
    \A r \in Requests :
        (outcome[r].kind = "rejected" /\ timer[r] # "fired")
        => /\ Len(sent[r]) = 1
           /\ sent[r][1].status = 500
           /\ sent[r][1].document
           /\ sent[r][1].updatedDiagramXML = body[r].diagramXML

C4_Witness ==
    \E r \in Requests :
        /\ outcome[r].kind = "rejected"
        /\ timer[r] = "cleared"
        /\ body[r].diagramXML = CallerDoc
        /\ Len(sent[r]) = 1

\* C5: the updatedDiagramXML of every response that carries one is the
\* caller's diagramXML or a candidate that comprehensiveXMLValidation
\* found valid.
C5_OnlyValidatedDocuments ==
    \A r \in Requests :
        \A i \in 1..Len(sent[r]) :
            sent[r][i].document
            => \/ sent[r][i].updatedDiagramXML = body[r].diagramXML
               \/ \E k \in 1..Len(Attempts(r)) :
                      /\ Attempts(r)[k].valid
                      /\ Attempts(r)[k].xml = sent[r][i].updatedDiagramXML

\* a candidate failed validation and the request was answered all the same
C5_Witness ==
    \E r \in Requests :
        /\ Processed(r)
        /\ Len(Attempts(r)) >= 2
        /\ ~LastAttempt(r).valid
        /\ LastAttempt(r).xml # body[r].diagramXML
        /\ Len(sent[r]) = 1

\* C6: the candidates are validated in the order model's document,
\* sanitized document, rebuilt document; each later one only after the
\* earlier ones failed; the first candidate that passes is the one returned.
C6_RepairOrder ==
    \A r \in Requests :
        Processed(r) /\ Attempts(r) # <<>>
        => LET A == Attempts(r)
               n == Len(A)
           IN  /\ n <= 3
               /\ A[1].strategy = "original"
               /\ A[1].xml = llmResponse(outcome[r].text, body[r].diagramXML,
                                         JsonValues).updatedDiagramXML
               /\ n >= 2 => /\ A[2].strategy = "sanitized"
                            /\ A[2].xml = sanitizeXML(A[1].xml)
               /\ n = 3 => /\ A[3].strategy = "rebuilt"
                           /\ A[3].xml = RebuildHead \o processMatch(A[2].xml)
                                         \o RebuildTail
               /\ \A k \in 1..(n - 1) : ~A[k].valid
               /\ A[n].valid => sent[r][1].updatedDiagramXML = A[n].xml

\* all three candidates were tried and the third one was returned
C6_Witness ==
    \E r \in Requests :
        /\ Processed(r)
        /\ Len(Attempts(r)) = 3
        /\ Attempts(r)[3].valid
        /\ sent[r][1].updatedDiagramXML = Attempts(r)[3].xml

\* C7 as stated: the Sanitizer runs only on an invalid candidate whose
\* validation error mentions quoting.
C7_SanitizedOnlyOnQuoteError ==
    \A r \in Requests :
        Len(Attempts(r)) >= 2
        => (~Attempts(r)[1].valid /\ Includes(Attempts(r)[1].error, "quot"))

\* C7 amended: the Sanitizer runs on the model's document exactly when that
\* document fails validation, whatever the validation error says.
C7_SanitizedIffInvalid ==
    \A r \in Requests :
        Attempts(r) # <<>>
        => /\ Len(Attempts(r)) >= 2 <=> ~Attempts(r)[1].valid
           /\ Len(Attempts(r)) >= 2 => Attempts(r)[2].strategy = "sanitized"

\* an invalid candidate whose error does not mention quoting was sanitized
C7_Witness ==
    \E r \in Requests :
        /\ Len(Attempts(r)) >= 2
        /\ Attempts(r)[2].strategy = "sanitized"
        /\ ~Includes(Attempts(r)[1].error, "quot")

\* C8: when the last candidate validated is invalid, the response keeps the
\* caller's diagramXML and its text ends with the note that quotes the
\* error of that last validation.
C8_FailureKeepsOriginalAndExplains ==
    \A r \in Requests :
        (Processed(r) /\ Attempts(r) # <<>> /\ ~LastAttempt(r).valid)
        => /\ Len(sent[r]) = 1
           /\ sent[r][1].status = 200
           /\ sent[r][1].updatedDiagramXML = body[r].diagramXML
           /\ EndsWith(sent[r][1].response,
                       " [Note: Generated XML was invalid and could not be repaired ("
                       \o LastAttempt(r).error
                       \o "), keeping original diagram]")

\* original, sanitized and rebuilt candidate all failed, with different errors
C8_Witness ==
    \E r \in Requests :
        /\ Processed(r)
        /\ Len(Attempts(r)) = 3
        /\ ~Attempts(r)[3].valid
        /\ Attempts(r)[3].error # Attempts(r)[1].error
        /\ body[r].diagramXML = CallerDoc
        /\ Len(sent[r]) = 1

\* the rebuilt candidate of request r passed validation
RebuiltValid(r) ==
    /\ Processed(r)
    /\ Len(Attempts(r)) = 3
    /\ ~Attempts(r)[1].valid
    /\ ~Attempts(r)[2].valid
    /\ Attempts(r)[3].valid

\* C9: when the rebuilt envelope passes validation the response carries the
\* rebuilt document and its text ends with the simplification note; no
\* response carries that note otherwise.
C9_RebuiltAnnotated ==
    \A r \in Requests :
        /\ RebuiltValid(r)
           => /\ Len(sent[r]) = 1
              /\ Attempts(r)[3].xml # body[r].diagramXML
              /\ Includes(Attempts(r)[3].xml, "</bpmn:process>\n  <bpmndi:BPMNDiagram")
              /\ sent[r][1].updatedDiagramXML = Attempts(r)[3].xml
              /\ EndsWith(sent[r][1].response,
                          " [Note: Diagram layout was simplified due to XML issues]")
        /\ \A i \in 1..Len(sent[r]) :
               Includes(sent[r][i].response, "Diagram layout was simplified")
               => RebuiltValid(r)

C9_Witness ==
    \E r \in Requests :
        /\ RebuiltValid(r)
        /\ Len(sent[r]) = 1
        /\ sent[r][1].status = 200

\* C10: a fenced json block (with or without prose before it) whose JSON has
\* a response text and an unbatched updatedDiagramXML that passes validation
\* is answered with exactly that document and that response text.
C10_FencedJsonReturnedUnchanged ==
    \A r \in Requests :
        \A v \in JsonValues, prose \in {"", "Here is the diagram:\n"} :
            ( /\ Processed(r)
              /\ outcome[r].text = prose \o Fence(JsonText(v))
              /\ v.kind = "object" /\ ~v.nonText /\ ~v.xmlBatched
              /\ v.updatedDiagramXML # "" /\ v.response # ""
              /\ "original" \notin outcome[r].parserFails
              /\ validateXMLStructure(v.updatedDiagramXML).valid
              /\ countTags(v.updatedDiagramXML).valid
              /\ validateBPMNSpecificStructure(v.updatedDiagramXML).valid )
            => /\ Len(sent[r]) = 1
               /\ sent[r][1].status = 200
               /\ sent[r][1].updatedDiagramXML = v.updatedDiagramXML
               /\ sent[r][1].response = v.response

C10_Witness ==
    \E r \in Requests :
        /\ Processed(r)
        /\ outcome[r].text =
               "Here is the diagram:\n"
               \o Fence(JsonText(JsonObject(GoodDoc, "Created the diagram.", "")))
        /\ body[r].diagramXML = CallerDoc
        /\ Len(sent[r]) = 1
        /\ sent[r][1].updatedDiagramXML = GoodDoc

\* the parts 1..n of a batched answer, joined in index order
RECURSIVE ConcatParts(_, _)
ConcatParts(parts, n) ==
    IF n = 0 THEN "" ELSE ConcatParts(parts, n - 1) \o parts[n]

\* the answer of request r is the batched JSON value v with all its parts
BatchedAnswer(r, v) ==
    /\ Processed(r)
    /\ outcome[r].text = Fence(JsonText(v))
    /\ v.kind = "object" /\ v.xmlBatched
    /\ v.xmlBatchCount >= 1
    /\ Len(v.xmlBatch) >= v.xmlBatchCount
    /\ \A i \in 1..v.xmlBatchCount : v.xmlBatch[i] # ""

\* C11: when the answer is batched with count n and the parts 1..n are all
\* there, the first text that is validated is the concatenation
\* part1 + ... + partn in index order: the reconstruction is complete before
\* any validation runs.
C11_BatchesConcatenatedInOrder ==
    \A r \in Requests : \A v \in JsonValues :
        BatchedAnswer(r, v) =>
            /\ Len(Attempts(r)) >= 1
            /\ Attempts(r)[1].strategy = "original"
            /\ Attempts(r)[1].xml = ConcatParts(v.xmlBatch, v.xmlBatchCount)

\* a batched answer in two parts whose concatenation replaced the document
\* the answer also carried, was validated and was returned
C11_Witness ==
    \E r \in Requests : \E v \in JsonValues :
        /\ BatchedAnswer(r, v)
        /\ v.xmlBatchCount = 2
        /\ v.updatedDiagramXML # ""
        /\ Attempts(r)[1].xml = v.xmlBatch[1] \o v.xmlBatch[2]
        /\ Attempts(r)[1].xml # v.updatedDiagramXML
        /\ Len(sent[r]) = 1
        /\ sent[r][1].updatedDiagramXML = v.xmlBatch[1] \o v.xmlBatch[2]

\* the model's output is not extractable JSON: JSON.parse throws on the
\* fenced block, or on the whole text when there is no fenced block
NotExtractable(text) == ~JSONParse(jsonSource(text), JsonValues).ok

\* the provider's answer of request r was processed and was not
\* extractable JSON
ParseFailed(r) == Processed(r) /\ NotExtractable(outcome[r].text)

\* C23: when the model's output is not extractable JSON, the
\* updatedDiagramXML of the response is the caller's diagramXML, unchanged,
\* whatever the caller's diagramXML is.
C23_ParseFailureKeepsOriginal ==
    \A r \in Requests :
        ParseFailed(r) =>
            /\ Len(sent[r]) = 1
            /\ sent[r][1].updatedDiagramXML = body[r].diagramXML

\* C24: when the model's output is not extractable JSON, the response text
\* contains the parse-failure notice, whatever the caller's diagramXML is.
C24_ParseFailureNotice ==
    \A r \in Requests :
        ParseFailed(r) =>
            /\ Len(sent[r]) = 1
            /\ Includes(sent[r][1].response,
                        "Error: Could not parse AI response.")

\* the provider call of request r has settled
Settled(o) == o.kind \in {"resolved", "rejected", "threw"}

\* C25: when the provider call settles (resolves or rejects) before the
\* timer has fired, the step that handles it cancels the timer and sends
\* the success response or the 500 error response; a cancelled timer stays
\* cancelled, and a request whose timer was cancelled never gets the 408
\* timeout response.
C25_SettledBeforeTimeoutCancelsTimer ==
    /\ [][\A r \in Requests :
            /\ (~Settled(outcome[r]) /\ Settled(outcome'[r])
                   /\ timer[r] # "fired")
               => /\ timer'[r] = "cleared"
                  /\ Len(sent'[r]) = 1
                  /\ sent'[r][1].status \in {200, 500}
                  /\ sent'[r][1].document
            /\ timer[r] = "cleared" => timer'[r] = "cleared"]_vars
    /\ [](\A r \in Requests :
            timer[r] = "cleared" =>
                \A i \in 1..Len(sent[r]) : sent[r][i].status # 408)

\* the provider answered while the timer was armed: the timer is cancelled
\* and the success response was sent
C25_Witness ==
    \E r \in Requests :
        /\ timer[r] = "cleared"
        /\ Processed(r)
        /\ outcome[r].called = <<"anthropic">>
        /\ Len(sent[r]) = 1
        /\ sent[r][1].status = 200

\* the parts among 1..n of a batched answer that are present, joined in
\* index order
RECURSIVE PresentParts(_, _)
PresentParts(parts, n) ==
    IF n = 0 THEN ""
    ELSE PresentParts(parts, n - 1)
         \o (IF n <= Len(parts) THEN parts[n] ELSE "")

\* the answer of request r is the batched JSON value v, and one or more of
\* its parts 1..n are missing
PartialBatch(r, v) ==
    /\ Processed(r)
    /\ outcome[r].text = Fence(JsonText(v))
    /\ v.kind = "object" /\ v.xmlBatched
    /\ v.xmlBatchCount >= 1
    /\ \E i \in 1..v.xmlBatchCount : i > Len(v.xmlBatch) \/ v.xmlBatch[i] = ""

\* C27: when a batched answer lacks one or more of its parts 1..n, the
\* request is answered with status 200; when a part is present, the
\* concatenation of the present parts in index order replaces the
\* updatedDiagramXML of the answer and goes through the validation and
\* repair of any candidate (first validation on it, then the sanitizer on
\* it); when no part is present the updatedDiagramXML of the answer is the
\* candidate.
C27_PartialBatchIsValidated ==
    \A r \in Requests : \A v \in JsonValues :
        PartialBatch(r, v) =>
            LET present   == PresentParts(v.xmlBatch, v.xmlBatchCount)
                candidate == IF present # "" THEN present
                             ELSE v.updatedDiagramXML
            IN  /\ Len(sent[r]) = 1
                /\ sent[r][1].status = 200
                /\ candidate = "" <=> Attempts(r) = <<>>
                /\ candidate # "" =>
                       /\ Attempts(r)[1].strategy = "original"
                       /\ Attempts(r)[1].xml = candidate
                       /\ Attempts(r)[1].valid =>
                              sent[r][1].updatedDiagramXML = candidate
                       /\ ~Attempts(r)[1].valid =>
                              /\ Len(Attempts(r)) >= 2
                              /\ Attempts(r)[2].xml = sanitizeXML(candidate)

\* the second of three parts was missing: the first and the third part,
\* joined, replaced the document of the answer and failed validation
C27_Witness ==
    \E r \in Requests : \E v \in JsonValues :
        /\ PartialBatch(r, v)
        /\ v.xmlBatchCount = 3
        /\ v.updatedDiagramXML = GoodDoc
        /\ Attempts(r)[1].xml = v.xmlBatch[1] \o v.xmlBatch[3]
        /\ ~Attempts(r)[1].valid
        /\ Len(sent[r]) = 1
        /\ sent[r][1].status = 200

\* the strategies in the order in which the handler validates their
\* candidates
StrategyOrder == <<"original", "sanitized", "rebuilt">>

\* the handler of request r has reached its try block
ReachedTry(r) == pc[r] # "idle" /\ outcome[r].kind # "not called"

\* C22: within one request there is no retry loop.  generateResponse is
\* invoked exactly once by a handler that reaches its try block and never
\* more than once; comprehensiveXMLValidation is invoked at most three
\* times, on the model's document, the sanitized document and the rebuilt
\* document in this order; the processing of a provider answer ends with
\* the handler done and one response sent.
C22_NoRetryLoop ==
    \A r \in Requests :
        /\ outcome[r].calls <= 1
        /\ Len(outcome[r].called) <= 1
        /\ ReachedTry(r) => outcome[r].calls = 1
        /\ Len(Attempts(r)) <= 3
        /\ \A k \in 1..Len(Attempts(r)) :
               Attempts(r)[k].strategy = StrategyOrder[k]
        /\ outcome[r].kind \in {"resolved", "rejected", "threw"} =>
               (pc[r] = "done" /\ Len(sent[r]) = 1)

\* an answer whose three candidates all failed: one provider call, three
\* validations, one response
C22_Witness ==
    \E r \in Requests :
        /\ Processed(r)
        /\ outcome[r].calls = 1
        /\ Len(Attempts(r)) = 3
        /\ ~Attempts(r)[3].valid
        /\ pc[r] = "done"
        /\ Len(sent[r]) = 1

(***************************************************************************)
(* The validators and the sanitizer applied to a document text.  The text  *)
(* is put together from markup tokens, so that its nesting is known        *)
(* independently of the regular expressions of the validators.             *)
(***************************************************************************)

\* an opening tag with its attributes text
OpenTag(name, attrs) ==
    [kind |-> "open", name |-> name, text |-> "<" \o name \o attrs \o ">"]

CloseTag(name) ==
    [kind |-> "close", name |-> name, text |-> "</" \o name \o ">"]

SelfClosingTag(name, attrs) ==
    [kind |-> "selfClosing", name |-> name,
     text |-> "<" \o name \o attrs \o "/>"]

\* character data between the tags
CharData(text) == [kind |-> "text", name |-> "", text |-> text]

\* the document text of a sequence of tokens
RECURSIVE DocText(_)
DocText(tokens) ==
    IF Len(tokens) = 0 THEN ""
    ELSE tokens[1].text \o DocText(Tail(tokens))

\* every opening tag of tokens[i..] and of the stack of open elements has
\* exactly one matching closing tag
RECURSIVE NestedFrom(_, _, _)
NestedFrom(tokens, i, open) ==
    IF i > Len(tokens) THEN Len(open) = 0
    ELSE IF tokens[i].kind = "open"
    THEN NestedFrom(tokens, i + 1, <<tokens[i].name>> \o open)
    ELSE IF tokens[i].kind = "close"
    THEN /\ Len(open) > 0
         /\ open[1] = tokens[i].name
         /\ NestedFrom(tokens, i + 1, Tail(open))
    ELSE NestedFrom(tokens, i + 1, open)

WellNested(tokens) == NestedFrom(tokens, 1, <<>>)

NamespaceAttributes ==
    " " \o RequiredNamespaces[1] \o " " \o RequiredNamespaces[2]

\* how a document begins
DocHeads ==
    { <<>>,
      <<OpenTag("bpmn:definitions", NamespaceAttributes)>>,
      <<OpenTag("bpmn:definitions", "")>>,
      <<OpenTag("root", "")>>,
      <<CharData("<?xml version=\"1.0\"?>"),
        OpenTag("bpmn:definitions", NamespaceAttributes)>>,
      <<OpenTag("bpmn:definitions", " " \o RequiredNamespaces[1])>>,
      <<OpenTag("bpmn:definitions", " " \o RequiredNamespaces[2])>> }

\* what it holds
DocMiddles ==
    { <<>>,
      <<OpenTag("bpmn:process", ""), SelfClosingTag("bpmn:task", ""),
        CloseTag("bpmn:process")>>,
      <<OpenTag("bpmn:process", ""), OpenTag("bpmn:startEvent", ""),
        CloseTag("bpmn:startEvent"), SelfClosingTag("bpmn:endEvent", ""),
        CloseTag("bpmn:process")>>,
      <<OpenTag("bpmn:process", ""), SelfClosingTag("bpmn:task", ""),
        OpenTag("a", ""), CloseTag("a"), CloseTag("bpmn:process")>>,
      <<OpenTag("bpmn:process", ""), CloseTag("bpmn:process")>>,
      <<OpenTag("bpmn:process", ""), SelfClosingTag("bpmn:task", "")>>,
      <<OpenTag("a", ""), CloseTag("a")>>,
      <<OpenTag("bpmn:process", ""), SelfClosingTag("bpmn:task", ""),
        CharData("a >> b"), CloseTag("bpmn:process")>>,
      <<OpenTag("bpmn:process", ""), SelfClosingTag("bpmn:task", ""),
        CloseTag("bpmn:task"), CloseTag("bpmn:process")>>,
      <<OpenTag("bpmn:process", " id=\"Process_1\""),
        SelfClosingTag("bpmn:task", " id=\"Task_1\""),
        CloseTag("bpmn:process")>> }

\* how it ends
DocTails ==
    { <<>>,
      <<CloseTag("bpmn:definitions")>>,
      <<CloseTag("root")>>,
      <<CloseTag("bpmn:definitions"), CloseTag("bpmn:definitions")>> }

DocTokens == {h \o m \o t : h \in DocHeads, m \in DocMiddles, t \in DocTails}

\* A document text is picked, together with the verdict of the DOM parser
\* on it.
InitValidation ==
    /\ check \in [phase : {"input"}, tokens : DocTokens,
                  parserRejects : BOOLEAN]
    /\ ui = NoUi
    /\ server = ListeningServer([keys |-> {"ANTHROPIC_API_KEY"},
                                 geminiThrows |-> FALSE])
    /\ body = [r \in Requests |-> NoBody]
    /\ pc = [r \in Requests |-> "idle"]
    /\ timer = [r \in Requests |-> "none"]
    /\ responseHandled = [r \in Requests |-> FALSE]
    /\ sent = [r \in Requests |-> <<>>]
    /\ outcome = [r \in Requests |-> NoOutcome]

\* comprehensiveXMLValidation(xml) and each of its four components run on
\* the text; loose holds the counts of validateXMLStructure's patterns
Validate ==
    /\ check.phase = "input"
    /\ \E xml \in {DocText(check.tokens)} :
       \E rejects \in {IF check.parserRejects THEN {xml} ELSE {}} :
         check' =
           [phase |-> "validated", tokens |-> check.tokens,
            parserRejects |-> check.parserRejects, xml |-> xml,
            basic  |-> validateXMLStructure(xml),
            parser |-> validateXMLWithParser(xml, rejects),
            tags   |-> countTags(xml),
            bpmn   |-> validateBPMNSpecificStructure(xml),
            loose  |-> [selfClosingTags |-> MatchCount("selfClosingLoose", xml),
                        allOpenTags     |-> MatchCount("allOpen", xml),
                        closeTags       |-> MatchCount("closeLoose", xml)],
            result |-> comprehensiveXMLValidation(xml, rejects)]
    /\ UNCHANGED <<body, pc, timer, responseHandled, sent, outcome, server, ui>>

\* sanitizeXML(xml) and the validation of what it returns; a text that the
\* sanitizer left as it was gets the parser verdict it had
Sanitize ==
    /\ check.phase = "validated"
    /\ \E sanitized \in {sanitizeXML(check.xml)} :
       \E verdict \in IF sanitized = check.xml
                            THEN {check.parserRejects} ELSE BOOLEAN :
         check' =
           [phase |-> "sanitized", tokens |-> check.tokens,
            parserRejects |-> check.parserRejects, xml |-> check.xml,
            basic |-> check.basic, parser |-> check.parser,
            tags |-> check.tags, bpmn |-> check.bpmn, loose |-> check.loose,
            result |-> check.result,
            sanitized |-> sanitized,
            sanitizedRejects |-> verdict,
            sanitizedResult |->
                comprehensiveXMLValidation(sanitized,
                    IF verdict THEN {sanitized} ELSE {})]
    /\ UNCHANGED <<body, pc, timer, responseHandled, sent, outcome, server, ui>>

NextValidation == Validate \/ Sanitize

SpecValidation == InitValidation /\ [][NextValidation]_vars

\* a text has been validated
Validated == check.phase \in {"validated", "sanitized"}

\* C12: for every document text in which every opening tag has exactly one
\* matching closing tag (self-closing tags apart), countTags reports
\* balanced: valid is true and balance is 0.
C12_WellNestedIsBalanced ==
    (Validated /\ check.xml # "" /\ WellNested(check.tokens)) =>
        /\ check.tags.valid
        /\ check.tags.balance = 0

\* the text has both markers of the definitions section
HasDefinitionsMarkers ==
    /\ Includes(check.xml, "<bpmn:definitions")
    /\ Includes(check.xml, "</bpmn:definitions>")

\* the text has both markers of the process section
HasProcessMarkers ==
    /\ Includes(check.xml, "<bpmn:process")
    /\ Includes(check.xml, "</bpmn:process>")

\* C13: for every non-empty document text that lacks the opening or the
\* closing marker of the definitions section, validateXMLStructure returns
\* invalid with the error that names the missing definitions markers.
C13_MissingDefinitionsReported ==
    (Validated /\ check.xml # "" /\ ~HasDefinitionsMarkers) =>
        /\ ~check.basic.valid
        /\ check.basic.error = "Missing BPMN definitions tags"

\* the balanced text <root><a></a></root> without any marker was reported
C13_Witness ==
    /\ Validated
    /\ check.xml = "<root><a></a></root>"
    /\ WellNested(check.tokens)
    /\ ~check.basic.valid
    /\ check.basic.error = "Missing BPMN definitions tags"

\* C14: a document text that validates as valid still validates as valid
\* after sanitizeXML has been applied to it (here: whenever the DOM parser
\* accepts the sanitized text).
C14_SanitizerKeepsValid ==
    (check.phase = "sanitized" /\ check.result.valid
        /\ ~check.sanitizedRejects) =>
        check.sanitizedResult.valid

\* C17: comprehensiveXMLValidation returns valid exactly when
\* validateXMLStructure, validateXMLWithParser, countTags and
\* validateBPMNSpecificStructure all report valid for the text, and details
\* holds the results of all four.
C17_ValidIffAllComponentsValid ==
    Validated =>
        /\ check.result.valid <=>
               (/\ check.basic.valid
                /\ check.parser.valid
                /\ check.tags.valid
                /\ check.bpmn.valid)
        /\ check.result.details =
               [basic |-> check.basic, parser |-> check.parser,
                tags |-> check.tags, bpmn |-> check.bpmn]

\* a text on which the tag counts alone fail, and the overall verdict is
\* invalid
C17_Witness ==
    /\ Validated
    /\ check.basic.valid /\ check.parser.valid /\ check.bpmn.valid
    /\ ~check.tags.valid
    /\ ~check.result.valid
    /\ check.result.details.tags = check.tags

\* the messages of the components with their names, in the fixed order
ComponentMessages ==
    << [failed |-> ~check.basic.valid, name |-> "Basic",
        message |-> check.basic.error],
       [failed |-> ~check.parser.valid, name |-> "Parser",
        message |-> Join(check.parser.errors, ", ")],
       [failed |-> ~check.tags.valid, name |-> "Tags",
        message |-> TagsMessage(check.tags)],
       [failed |-> ~check.bpmn.valid, name |-> "BPMN",
        message |-> check.bpmn.error] >>

\* the messages of the failing components among the first n, each behind
\* its name, with " | " between them
RECURSIVE ExpectedError(_)
ExpectedError(n) ==
    IF n = 0 THEN ""
    ELSE LET before == ExpectedError(n - 1)
             c      == ComponentMessages[n]
         IN  IF ~c.failed THEN before
             ELSE (IF before = "" THEN "" ELSE before \o " | ")
                  \o c.name \o ": " \o c.message

\* C18: the error of comprehensiveXMLValidation is the " | "-joined list of
\* the messages of exactly the failing components, each prefixed by its
\* name, in the order Basic, Parser, Tags, BPMN; it is empty when the
\* verdict is valid.
C18_ErrorListsFailingComponents ==
    Validated =>
        /\ check.result.error = ExpectedError(4)
        /\ check.result.valid => check.result.error = ""

\* all four components failed and the error names them in order; the text
\* is not empty
C18_Witness ==
    /\ Validated
    /\ check.xml # ""
    /\ ~check.basic.valid /\ ~check.parser.valid
    /\ ~check.tags.valid /\ ~check.bpmn.valid
    /\ check.result.error =
           "Basic: " \o check.basic.error
           \o " | Parser: parsererror"
           \o " | Tags: " \o TagsMessage(check.tags)
           \o " | BPMN: " \o check.bpmn.error

\* the regular opening tags of validateXMLStructure
RegularOpenTags == check.loose.allOpenTags - check.loose.selfClosingTags

UnbalancedError ==
    "Unbalanced tags: " \o ToString(RegularOpenTags) \o " regular open, "
    \o ToString(check.loose.closeTags) \o " close, "
    \o ToString(check.loose.selfClosingTags)
    \o " self-closing. Check for unclosed tags near the end of the XML."

HasDoubledBrackets == Includes(check.xml, "<<") \/ Includes(check.xml, ">>")

\* the checks of validateXMLStructure that the text fails, by their number
FailedChecks ==
    {n \in 1..5 :
        \/ n = 1 /\ check.xml = ""
        \/ n = 2 /\ ~HasDefinitionsMarkers
        \/ n = 3 /\ ~HasProcessMarkers
        \/ n = 4 /\ RegularOpenTags # check.loose.closeTags
        \/ n = 5 /\ HasDoubledBrackets}

FirstFailedCheck == CHOOSE n \in FailedChecks : \A k \in FailedChecks : n <= k

CheckError(n) ==
    CASE n = 1 -> "XML is empty or not a string"
      [] n = 2 -> "Missing BPMN definitions tags"
      [] n = 3 -> "Missing BPMN process tags"
      [] n = 4 -> UnbalancedError
      [] n = 5 -> "Invalid XML syntax: double angle brackets"

\* C19: validateXMLStructure checks (1) non-empty, (2) definitions markers,
\* (3) process markers, (4) regular open tags equal close tags, (5) no
\* doubled angle brackets, in this order; it returns the error of the first
\* check that fails and valid with error null only when all five pass.
C19_FirstFailingCheckReported ==
    Validated =>
        IF FailedChecks = {}
        THEN check.basic = [valid |-> TRUE, error |-> Null]
        ELSE check.basic =
                 [valid |-> FALSE, error |-> CheckError(FirstFailedCheck)]

\* a text that fails the process markers and the balance at once got the
\* error of the process markers
C19_Witness ==
    /\ Validated
    /\ FailedChecks = {3, 4}
    /\ check.basic.error = "Missing BPMN process tags"

\* C20: for every text with the definitions and the process markers, the
\* balance check of validateXMLStructure (regular open tags equal close
\* tags) passes exactly when countTags reports valid, and on a mismatch the
\* error holds the regular-open, close and self-closing counts.
C20_BalanceCheckIsTagCounts ==
    (Validated /\ HasDefinitionsMarkers /\ HasProcessMarkers) =>
        /\ (RegularOpenTags = check.loose.closeTags) <=> check.tags.valid
        /\ RegularOpenTags # check.loose.closeTags =>
               check.basic.error = UnbalancedError

\* the required namespace declarations that the text lacks, in list order
MissingNamespaces ==
    SelectSeq(RequiredNamespaces, LAMBDA ns : ~Includes(check.xml, ns))

\* the text has a marker of one of the element kinds of the fixed set
HasElementMarker ==
    \E kind \in {"startEvent", "endEvent", "task", "userTask", "serviceTask",
                 "scriptTask", "gateway"} :
        Includes(check.xml, "<bpmn:" \o kind)

\* the result of validateBPMNSpecificStructure for a text that is not empty
MarkerVerdict ==
    IF Len(MissingNamespaces) > 0
    THEN [valid |-> FALSE,
          error |-> "Missing required namespace: " \o MissingNamespaces[1]]
    ELSE IF ~HasDefinitionsMarkers
    THEN [valid |-> FALSE, error |-> "Missing BPMN definitions tags"]
    ELSE IF ~HasProcessMarkers
    THEN [valid |-> FALSE, error |-> "Missing BPMN process tags"]
    ELSE IF ~HasElementMarker
    THEN [valid |-> FALSE, error |-> "No BPMN process elements found"]
    ELSE [valid |-> TRUE, error |-> Null]

\* C21 as stated: validateBPMNSpecificStructure returns valid only if both
\* namespace declarations, the definitions and process markers and an
\* element marker occur, and on failure the error names the first missing
\* namespace, or the missing markers, or says that no process element was
\* found.
C21_FailureNamesWhatIsMissing ==
    Validated => check.bpmn = MarkerVerdict

\* C21 amended: the same for every text that is not empty; the empty text
\* is invalid with the error of the empty-or-not-a-string check.
C21_NonEmptyFailureNamesWhatIsMissing ==
    Validated =>
        check.bpmn = IF check.xml = ""
                     THEN [valid |-> FALSE,
                           error |-> "XML is empty or not a string"]
                     ELSE MarkerVerdict

\* a text with the first namespace declaration only: the error names the
\* second one
C21_Witness ==
    /\ Validated
    /\ Includes(check.xml, RequiredNamespaces[1])
    /\ ~check.bpmn.valid
    /\ check.bpmn.error =
           "Missing required namespace: xmlns:bpmndi=\"http://www.omg.org/spec/BPMN/20100524/DI\""

(***************************************************************************)
(* The server process from its start: the module-level code runs once,     *)
(* then requests are handled.                                              *)
(***************************************************************************)

\* the process starts in some environment
InitStartup ==
    /\ server \in {StartingServer(env) : env \in Environments}
    /\ check = NoCheck
    /\ ui = NoUi
    /\ body = [r \in Requests |-> NoBody]
    /\ pc = [r \in Requests |-> "idle"]
    /\ timer = [r \in Requests |-> "none"]
    /\ responseHandled = [r \in Requests |-> FALSE]
    /\ sent = [r \in Requests |-> <<>>]
    /\ outcome = [r \in Requests |-> NoOutcome]

\* aiClients = initializeAIClients();
\* availableProviders = getAvailableProviders(aiClients)
InitializeProviders ==
    /\ server.phase = "starting"
    /\ server' = [server EXCEPT
           !.phase = "initialized",
           !.availableProviders =
               getAvailableProviders(initializeAIClients(server.env))]
    /\ UNCHANGED <<body, pc, timer, responseHandled, sent, outcome, check, ui>>

\* the missing providers are logged and the process goes on
CheckProviders_NoExit ==
    /\ server.phase = "initialized"
    /\ server' = [server EXCEPT !.phase = "ready"]
    /\ UNCHANGED <<body, pc, timer, responseHandled, sent, outcome, check, ui>>

\* if (availableProviders.length === 0) process.exit(1); otherwise the
\* routes and the error handlers are registered
CheckProviders ==
    /\ server.phase = "initialized"
    /\ server' = IF Len(server.availableProviders) = 0
                 THEN [server EXCEPT !.phase = "exited", !.exit = <<1>>]
                 ELSE [server EXCEPT !.phase = "ready"]
    /\ UNCHANGED <<body, pc, timer, responseHandled, sent, outcome, check, ui>>

\* app.listen(port)
Listen ==
    /\ server.phase = "ready"
    /\ server' = [server EXCEPT !.phase = "listening"]
    /\ UNCHANGED <<body, pc, timer, responseHandled, sent, outcome, check, ui>>

\* the requests and the answers of the provider once the server listens
StartupBodies ==
    [diagramXML : {CallerDoc}, prompt : {"Add a review task"},
     selectedElementIds : {"[]"},
     aiProvider : {Undefined, "", "openai", "gemini", "cohere"}]

StartupTexts ==
    {Fence(JsonText(JsonObject(GoodDoc, "Created the diagram.", ""))),
     "I cannot help with that."}

NextStartup ==
    \/ InitializeProviders
    \/ CheckProviders
    \/ Listen
    \/ \E r \in {1} :
          \/ Receive(r, StartupBodies)
          \/ TimerFire(r)
          \/ ProviderResolve(r, StartupTexts, {{}})
          \/ ProviderReject(r)

SpecStartup == InitStartup /\ [][NextStartup]_vars

\* C15: when getAvailableProviders returns an empty list at startup, the
\* process exits with a non-zero code before the server listens: the step
\* that follows the initialization is the exit, a process that listens
\* has a provider, and no request is accepted unless the server listens
\* with a provider.
C15_NoProviderNoServer ==
    /\ [](/\ server.phase \in {"ready", "listening"} =>
                Len(server.availableProviders) > 0
          /\ server.phase = "exited" =>
                /\ server.exit = <<1>>
                /\ Len(server.availableProviders) = 0
          /\ \A r \in Requests :
                pc[r] # "idle" =>
                    /\ server.phase = "listening"
                    /\ Len(server.availableProviders) > 0)
    /\ [][(server.phase = "initialized"
              /\ Len(server.availableProviders) = 0) =>
             (server'.phase = "exited" /\ server'.exit = <<1>>)]_vars

\* the process exited with code 1 although the Gemini credential was set:
\* the constructor of the only client threw
C15_Witness ==
    /\ server.phase = "exited"
    /\ server.exit = <<1>>
    /\ server.env.keys = {"GEMINI_API_KEY"}
    /\ server.availableProviders = <<>>
    /\ \A r \in Requests : pc[r] = "idle"

\* the request names a provider: aiProvider is a non-empty value
NamesProvider(b) == b.aiProvider \notin {Undefined, ""}

\* the provider has an initialized client in the server's environment
HasClient(p) ==
    p \in SupportedProviders /\ p \in DOMAIN initializeAIClients(server.env)

\* C26: a request that names a provider that is unsupported or has no
\* initialized client is answered with the 500 error response carrying the
\* caller's diagramXML, and no provider is called for it; a request that
\* names a provider with a client has that provider called and no other;
\* the first available provider is called only when the request names
\* none.
C26_NamedProviderOrError ==
    \A r \in Requests :
        ReachedTry(r) =>
            IF NamesProvider(body[r])
            THEN IF HasClient(body[r].aiProvider)
                 THEN outcome[r].called = <<body[r].aiProvider>>
                 ELSE /\ outcome[r].called = <<>>
                      /\ sent[r] = <<ChatResponse(500, ErrorText,
                                                  body[r].diagramXML)>>
            ELSE outcome[r].called = <<server.availableProviders[1]>>

\* the request named gemini, whose credential is set but whose client
\* failed to initialize, while another provider was available: the answer
\* is the 500 error response and that other provider was not called
C26_Witness ==
    \E r \in Requests :
        /\ body[r].aiProvider = "gemini"
        /\ "GEMINI_API_KEY" \in server.env.keys
        /\ server.availableProviders = <<"anthropic">>
        /\ outcome[r].called = <<>>
        /\ Len(sent[r]) = 1
        /\ sent[r][1].status = 500
        /\ sent[r][1].updatedDiagramXML = CallerDoc

(***************************************************************************)
(* Two requests in flight at once                                          *)
(***************************************************************************)

ConcurrentBodies ==
    { [diagramXML |-> CallerDoc, prompt |-> "Add a review task",
       selectedElementIds |-> "[]", aiProvider |-> Undefined],
      [diagramXML |-> "", prompt |-> "Add a review task",
       selectedElementIds |-> "[]", aiProvider |-> Undefined],
      [diagramXML |-> CallerDoc, prompt |-> Undefined,
       selectedElementIds |-> "[]", aiProvider |-> Undefined] }

ConcurrentTexts ==
    {Fence(JsonText(JsonObject(GoodDoc, "Created the diagram.", ""))),
     Fence(JsonText(JsonObject(TruncatedDoc, "Created the diagram.", ""))),
     "I cannot help with that."}

NextConcurrent ==
    \E r \in Requests :
        \/ Receive(r, ConcurrentBodies)
        \/ TimerFire(r)
        \/ ProviderResolve(r, ConcurrentTexts, {{}})
        \/ ProviderReject(r)

SpecConcurrent == Init /\ [][NextConcurrent]_vars

\* the success response for the processed answer a
SuccessSent(a) == <<ChatResponse(200, a.response, a.updatedDiagramXML)>>

\* The responses of a request as a function of its own body b, its own
\* provider outcome o and its own timer t.  A timer that is fired once the
\* provider call has settled fired before it: settling clears an armed
\* timer.
OwnResponses(b, o, t) ==
    IF o.kind = "not called" THEN <<InternalErrorResponse>>
    ELSE IF t = "fired"
    THEN <<ChatResponse(408, TimeoutText, b.diagramXML)>>
    ELSE IF o.kind = "pending" THEN <<>>
    ELSE IF o.kind \in {"rejected", "threw"}
    THEN <<ChatResponse(500, ErrorText, b.diagramXML)>>
    ELSE SuccessSent(ProcessAnswer(o.text, b.diagramXML, o.parserFails,
                                   JsonValues))

\* the state of request q is the same before and after the step
Untouched(q) ==
    /\ body'[q] = body[q]
    /\ pc'[q] = pc[q]
    /\ timer'[q] = timer[q]
    /\ responseHandled'[q] = responseHandled[q]
    /\ sent'[q] = sent[q]
    /\ outcome'[q] = outcome[q]

\* C16: two requests in flight share no mutable state.  In every
\* interleaving the responses of a request (status, response text,
\* updatedDiagramXML) are a function of its own body, its own provider
\* outcome and its own timer, its responseHandled flag is set exactly when
\* its handler has answered, and a step of one request leaves the flag, the
\* candidate and every other part of the other request as they were.
C16_RequestsAreIsolated ==
    /\ [](\A r \in Requests :
            /\ sent[r] = OwnResponses(body[r], outcome[r], timer[r])
            /\ responseHandled[r] <=>
                   (Len(sent[r]) > 0 /\ sent[r][1].document))
    /\ [][\E r \in Requests : \A q \in Requests \ {r} : Untouched(q)]_vars

\* request 1 was answered by its timer and still waits for its provider,
\* while request 2, received with another body, was answered with the
\* document of its own provider's answer
C16_Witness ==
    /\ pc[1] = "awaiting" /\ timer[1] = "fired"
    /\ Len(sent[1]) = 1 /\ sent[1][1].status = 408
    /\ sent[1][1].updatedDiagramXML = CallerDoc
    /\ pc[2] = "done" /\ body[2].diagramXML = ""
    /\ Len(sent[2]) = 1 /\ sent[2][1].status = 200
    /\ sent[2][1].updatedDiagramXML = GoodDoc

(***************************************************************************)
(* The frontend: the React component App.  One step is one event (a user   *)
(* action, a timer callback or the continuation of a promise) together     *)
(* with the render and the effects that follow it.                         *)
(***************************************************************************)

\* how many chat messages the user submits, how many edits the user makes
\* in the editor and how often the test diagram is asked for
MaxSubmits == 1
MaxEdits == 1
MaxTestLoads == 1

XmlDeclaration == "<?xml version=\"1.0\" encoding=\"UTF-8\"?>\n"

\* the initial value of the bpmnXML state
InitialXML == XmlDeclaration \o AttributedDoc

\* testXML of GET /api/test-bpmn
TestXML ==
    XmlDeclaration \o DefinitionsOpen
    \o "<bpmn:process id=\"Process_1\"><bpmn:startEvent id=\"StartEvent_1\"/>"
    \o "<bpmn:task id=\"Task_1\"/><bpmn:endEvent id=\"EndEvent_1\"/>"
    \o "</bpmn:process></bpmn:definitions>"

\* validateXML: the DOMParser of the browser is a library; domRejects holds
\* the texts for which it yields a parsererror
validateXML(xmlString, domRejects) == xmlString \notin domRejects

\* the texts explored that are not well-formed XML
DomRejects == {OpenProcessDoc, TruncatedDoc}

\* chatMessages is kept as its length and its last message
NoMessages == [length |-> 0, last |-> ""]

\* [...prevMessages, {sender, text}]
appendMessage(messages, text) == [length |-> messages.length + 1, last |-> text]

\* countTags of the frontend
frontendCountTags(xml) ==
    IF xml = ""
    THEN [openTags |-> 0, closeTags |-> 0, selfClosing |-> 0, valid |-> FALSE]
    ELSE [openTags    |-> MatchCount("openStrict", xml),
          closeTags   |-> MatchCount("closeStrict", xml),
          selfClosing |-> MatchCount("selfClosingStrict", xml),
          valid       |-> (MatchCount("openStrict", xml)
                               = MatchCount("closeStrict", xml)),
          balance     |-> MatchCount("openStrict", xml)
                              - MatchCount("closeStrict", xml)]

\* the result of validateBPMNXML for the results of its four checks
frontendValidation(domValid, tagCounts, hasDefinitions, hasProcess) ==
    [valid |-> domValid /\ tagCounts.valid /\ hasDefinitions /\ hasProcess,
     error |-> Join(
         (IF ~domValid THEN <<"DOM parser failed">> ELSE <<>>)
         \o (IF ~tagCounts.valid
             THEN <<"Unbalanced tags (" \o ToString(tagCounts.balance) \o ")">>
             ELSE <<>>)
         \o (IF ~hasDefinitions THEN <<"Missing BPMN definitions">> ELSE <<>>)
         \o (IF ~hasProcess THEN <<"Missing BPMN process">> ELSE <<>>),
         ", ")]

validateBPMNXML(xml, domRejects) ==
    IF xml = ""
    THEN [valid |-> FALSE, error |-> "XML is empty or not a string"]
    ELSE frontendValidation(
             validateXML(xml, domRejects),
             frontendCountTags(xml),
             Includes(xml, "<bpmn:definitions")
                 /\ Includes(xml, "</bpmn:definitions>"),
             Includes(xml, "<bpmn:process") /\ Includes(xml, "</bpmn:process>"))

\* the modeler holds no diagram
NoDiagram == [source |-> "", edits |-> 0]

\* the diagram of the modeler after importXML(xml) has resolved
Imported(xml) == [source |-> xml, edits |-> 0]

\* no importXML call is in progress
NoImport == [kind |-> "none", xml |-> ""]

StripDeclaration(xml) ==
    IF Sub(xml, 1, Len(XmlDeclaration)) = XmlDeclaration
    THEN Sub(xml, Len(XmlDeclaration) + 1, Len(xml))
    ELSE xml

\* the document with one more task in its process section for each edit
RECURSIVE WithEdits(_, _)
WithEdits(xml, edits) ==
    IF edits = 0 THEN xml
    ELSE LET at == IndexOfLit(xml, "</bpmn:process>", 1)
         IN  IF at = 0 THEN WithEdits(xml \o "<bpmn:task/>", edits - 1)
             ELSE WithEdits(Sub(xml, 1, at - 1) \o "<bpmn:task/>"
                            \o Sub(xml, at, Len(xml)), edits - 1)

\* bpmnModeler.saveXML({format: true}): the serialization of the diagram
\* the modeler holds, which starts with the XML declaration whatever text
\* was imported
saveXML(diagram) ==
    XmlDeclaration \o WithEdits(StripDeclaration(diagram.source), diagram.edits)

\* the documents of the success responses
AnswerDocs == {GoodDoc, OpenProcessDoc, TruncatedDoc}

\* the documents bpmnXML takes: the initial diagram, the test diagram, the
\* documents of the responses, and what saveXML yields for them after edits
ExploredDocs ==
    LET received == {InitialXML, TestXML} \cup AnswerDocs
    IN  received \cup {saveXML([source |-> x, edits |-> k]) :
                           x \in received, k \in 0..MaxEdits}

\* validateBPMNXML for each of these documents, computed once
ExploredValidations ==
    {<<x, validateBPMNXML(x, DomRejects)>> : x \in ExploredDocs}

\* validateBPMNXML(xml), looked up when it has been computed
validationOf(xml, domRejects) ==
    IF domRejects = DomRejects /\ xml \in ExploredDocs
    THEN (CHOOSE v \in ExploredValidations : v[1] = xml)[2]
    ELSE validateBPMNXML(xml, domRejects)

\* the component after its first render: no modeler yet
MountedUi(domRejects) ==
    [phase |-> "mounted", modeler |-> FALSE, initialLoad |-> FALSE,
     bpmnXML |-> InitialXML, isLoading |-> FALSE, diagram |-> NoDiagram,
     importing |-> NoImport, chatMessages |-> NoMessages, requests |-> <<>>,
     domRejects |-> domRejects,
     used |-> [submits |-> 0, edits |-> 0, testLoads |-> 0]]

\* the message of the effect when validateBPMNXML fails
InvalidBeforeImport(error) ==
    "Error: Invalid BPMN XML detected before import. " \o error
    \o ". The backend should have caught this - please report this issue."

\* the body of the effect on [bpmnXML] when its condition holds, for the
\* result validation of validateBPMNXML(bpmnXML)
importEffect(u, validation) ==
    IF ~validation.valid
    THEN [u EXCEPT !.chatMessages = appendMessage(@, InvalidBeforeImport(validation.error)),
                   !.isLoading = FALSE]
    ELSE [u EXCEPT !.isLoading = TRUE,
                   !.importing = [kind |-> "update", xml |-> u.bpmnXML]]

\* setBpmnXML(xml), the render and the effect on [bpmnXML]: the effect runs
\* when the value has changed
setBpmnXML(u, xml) ==
    IF xml = u.bpmnXML THEN u
    ELSE IF u.modeler /\ xml # "" /\ u.initialLoad /\ ~u.isLoading
    THEN importEffect([u EXCEPT !.bpmnXML = xml],
                      validationOf(xml, u.domRejects))
    ELSE [u EXCEPT !.bpmnXML = xml]

\* String.prototype.trim() yields the empty string
Blank(text) == \A i \in 1..Len(text) : Ch(text, i) \in WhiteSpace

\* the text of the chat message for the response body data
ChatText(data) == IF data.document THEN data.response ELSE Undefined

\* handleChatSubmit after the response body data has been read
chatDelivered(u, data) ==
    IF data.document /\ ~Blank(data.updatedDiagramXML)
    THEN IF Includes(data.updatedDiagramXML, "<bpmn:definitions")
            /\ Includes(data.updatedDiagramXML, "</bpmn:definitions>")
         THEN setBpmnXML([u EXCEPT !.chatMessages = appendMessage(@, ChatText(data))],
                         data.updatedDiagramXML)
         ELSE [u EXCEPT !.chatMessages =
                  appendMessage(appendMessage(@, ChatText(data)),
                      "Error: Received invalid BPMN XML from AI. Please try again.")]
    ELSE [u EXCEPT !.chatMessages = appendMessage(@, ChatText(data))]

\* the responses of POST /api/chat to a request that carried diagramXML: the
\* timeout response and the error response carry diagramXML, the global
\* error handler sends no document
ErrorAnswers(diagramXML) ==
    {ChatResponse(408, TimeoutText, diagramXML),
     ChatResponse(500, ErrorText, diagramXML)}

ChatAnswers(diagramXML) ==
    ErrorAnswers(diagramXML)
    \cup {InternalErrorResponse}
    \cup {ChatResponse(200, "Created the diagram.", d) : d \in AnswerDocs}

\* the requests in flight without the i-th
WithoutRequest(u, i) ==
    [u EXCEPT !.requests = SubSeq(@, 1, i - 1) \o SubSeq(@, i + 1, Len(@))]

\* err.message of a rejected importXML
ImportErrors ==
    {"unparsable content <bpmn:foo> detected", "no diagram to display"}

\* the chat message for a rejected import
importErrorMessage(message) ==
    "Error updating diagram: " \o
    (IF Includes(message, "unparsable content")
        \/ Includes(message, "closing tag mismatch")
     THEN "Invalid BPMN XML structure detected. The AI generated malformed XML. Please try again with a different description."
     ELSE IF Includes(message, "sourceRef") \/ Includes(message, "targetRef")
     THEN "Invalid sequence flow references. Please try again."
     ELSE IF Includes(message, "duplicate id")
     THEN "Duplicate element IDs detected. Please try again."
     ELSE message \o ". Please try again or use the Test BPMN button to load a working diagram.")

\* the variables of the backend
backend == <<body, pc, timer, responseHandled, sent, outcome, server, check>>

InitFrontend ==
    /\ ui = MountedUi(DomRejects)
    /\ server = ListeningServer([keys |-> {"ANTHROPIC_API_KEY"},
                                 geminiThrows |-> FALSE])
    /\ check = NoCheck
    /\ body = [r \in Requests |-> NoBody]
    /\ pc = [r \in Requests |-> "idle"]
    /\ timer = [r \in Requests |-> "none"]
    /\ responseHandled = [r \in Requests |-> FALSE]
    /\ sent = [r \in Requests |-> <<>>]
    /\ outcome = [r \in Requests |-> NoOutcome]

\* the callback of setTimeout(..., 100) in the mount effect: the modeler is
\* created and the initial value of bpmnXML is imported
ModelerInit ==
    /\ ui.phase = "mounted"
    /\ ~ui.modeler
    /\ ui' = [ui EXCEPT !.modeler = TRUE,
                        !.importing = [kind |-> "initial", xml |-> InitialXML]]
    /\ UNCHANGED backend

\* the initial importXML resolves
InitialImportResolve ==
    /\ ui.phase = "mounted"
    /\ ui.importing.kind = "initial"
    /\ ui' = [ui EXCEPT !.initialLoad = TRUE,
                        !.diagram = Imported(ui.importing.xml),
                        !.importing = NoImport]
    /\ UNCHANGED backend

\* the initial importXML rejects: the error is logged
InitialImportReject ==
    /\ ui.phase = "mounted"
    /\ ui.importing.kind = "initial"
    /\ ui' = [ui EXCEPT !.importing = NoImport]
    /\ UNCHANGED backend

\* The user changes the diagram in the editor: the commandStack.changed
\* listener saves the diagram and sets bpmnXML.
EditorChange ==
    /\ ui.phase = "mounted"
    /\ ui.modeler
    /\ ui.diagram # NoDiagram
    /\ ui.importing.kind = "none"
    /\ ui.used.edits < MaxEdits
    /\ \E d \in {[ui.diagram EXCEPT !.edits = @ + 1]} :
           ui' = setBpmnXML([ui EXCEPT !.diagram = d, !.used.edits = @ + 1],
                            saveXML(d))
    /\ UNCHANGED backend

\* handleChatSubmit up to the fetch: the request carries the current bpmnXML
ChatSubmit ==
    /\ ui.phase = "mounted"
    /\ ui.used.submits < MaxSubmits
    /\ ui' = [ui EXCEPT !.chatMessages = appendMessage(@, "Add a review task"),
                        !.requests = Append(@, [diagramXML |-> ui.bpmnXML]),
                        !.used.submits = @ + 1]
    /\ UNCHANGED backend

\* the response of a chat request arrives
ChatAnswered ==
    /\ ui.phase = "mounted"
    /\ \E i \in 1..Len(ui.requests) :
       \E data \in ChatAnswers(ui.requests[i].diagramXML) :
           ui' = chatDelivered(WithoutRequest(ui, i), data)
    /\ UNCHANGED backend

\* the fetch of a chat request fails: the catch block of handleChatSubmit
ChatFetchFails ==
    /\ ui.phase = "mounted"
    /\ \E i \in 1..Len(ui.requests) :
           ui' = [WithoutRequest(ui, i) EXCEPT !.chatMessages =
                     appendMessage(@, "Error: Could not connect to backend.")]
    /\ UNCHANGED backend

\* handleTestBPMN: the test diagram arrives
TestLoaded ==
    /\ ui.phase = "mounted"
    /\ ui.used.testLoads < MaxTestLoads
    /\ ui' = setBpmnXML(
                 [ui EXCEPT !.chatMessages =
                                appendMessage(@, "Test BPMN diagram loaded successfully!"),
                            !.used.testLoads = @ + 1],
                 TestXML)
    /\ UNCHANGED backend

\* handleTestBPMN: the fetch fails
TestLoadFails ==
    /\ ui.phase = "mounted"
    /\ ui.used.testLoads < MaxTestLoads
    /\ ui' = [ui EXCEPT !.chatMessages =
                            appendMessage(@, "Error: Could not load test BPMN diagram."),
                        !.used.testLoads = @ + 1]
    /\ UNCHANGED backend

\* importXML of the effect resolves
ImportResolve ==
    /\ ui.phase = "mounted"
    /\ ui.importing.kind = "update"
    /\ ui' = [ui EXCEPT !.diagram = Imported(ui.importing.xml),
                        !.importing = NoImport,
                        !.isLoading = FALSE]
    /\ UNCHANGED backend

\* the rejection is reported and the loading state is kept
ImportReject_StaysLoading ==
    /\ ui.phase = "mounted"
    /\ ui.importing.kind = "update"
    /\ \E message \in ImportErrors :
           ui' = [ui EXCEPT !.diagram = NoDiagram,
                            !.importing = NoImport,
                            !.chatMessages = appendMessage(@, importErrorMessage(message))]
    /\ UNCHANGED backend

\* importXML of the effect rejects
ImportReject ==
    /\ ui.phase = "mounted"
    /\ ui.importing.kind = "update"
    /\ \E message \in ImportErrors :
           ui' = [ui EXCEPT !.diagram = NoDiagram,
                            !.importing = NoImport,
                            !.chatMessages = appendMessage(@, importErrorMessage(message)),
                            !.isLoading = FALSE]
    /\ UNCHANGED backend

NextFrontend ==
    \/ ModelerInit
    \/ InitialImportResolve
    \/ InitialImportReject
    \/ EditorChange
    \/ ChatSubmit
    \/ ChatAnswered
    \/ ChatFetchFails
    \/ TestLoaded
    \/ TestLoadFails
    \/ ImportResolve
    \/ ImportReject

SpecFrontend == InitFrontend /\ [][NextFrontend]_vars

\* an importXML call that was started settles
SpecFrontendLive ==
    InitFrontend /\ [][NextFrontend]_vars
    /\ WF_vars(ImportResolve \/ ImportReject)

\* --------------------------------------------------------------------
\* Properties of the effect on [bpmnXML]

\* the effect on [bpmnXML] runs its body for the step
EffectRuns ==
    /\ ui.phase = "mounted"
    /\ ui'.bpmnXML # ui.bpmnXML
    /\ ui.modeler /\ ui.initialLoad /\ ~ui.isLoading

\* the step settles the importXML call of the effect
ImportSettles ==
    /\ ui.phase = "mounted"
    /\ ui.importing.kind = "update"
    /\ ui'.importing # ui.importing

\* C28: every import attempt started by a change of bpmnXML ends with
\* isLoading false: when validateBPMNXML rejects the document the effect
\* reports it and leaves isLoading false without importing; isLoading is true
\* exactly while the importXML call of the effect is pending; when that call
\* settles isLoading is false, and when it rejected an error message has been
\* appended to the chat; and a loading state always ends.
C28_LoadingAlwaysReset ==
    /\ [](ui.phase = "mounted"
            => (ui.isLoading <=> ui.importing.kind = "update"))
    /\ [][(EffectRuns /\ ~validationOf(ui'.bpmnXML, ui.domRejects).valid)
            => /\ ~ui'.isLoading
               /\ ui'.importing = NoImport
               /\ ui'.chatMessages.length = ui.chatMessages.length + 1
                  \/ ui'.chatMessages.length = ui.chatMessages.length + 2
               /\ Includes(ui'.chatMessages.last,
                           "Error: Invalid BPMN XML detected before import. ")]_vars
    /\ [][ImportSettles
            => /\ ~ui'.isLoading
               /\ ui'.importing = NoImport
               /\ \/ ui'.diagram = Imported(ui.importing.xml)
                  \/ \E message \in ImportErrors :
                         ui'.chatMessages =
                             appendMessage(ui.chatMessages,
                                           importErrorMessage(message))]_vars
    /\ (ui.phase = "mounted" /\ ui.isLoading) ~> ~ui.isLoading

\* the importXML call of the effect has rejected: the error is in the chat
\* and the loading state has ended
C28_Witness ==
    /\ ui.phase = "mounted"
    /\ ui.initialLoad
    /\ ~ui.isLoading
    /\ ui.importing = NoImport
    /\ ui.diagram = NoDiagram
    /\ ui.chatMessages.last = importErrorMessage("no diagram to display")

\* --------------------------------------------------------------------
\* Properties of handleChatSubmit

\* the step delivers the timeout response or the error response of the
\* i-th request in flight
ErrorDelivered(i) ==
    \E data \in ErrorAnswers(ui.requests[i].diagramXML) :
        ui' = chatDelivered(WithoutRequest(ui, i), data)

\* bpmnXML has been set by the mount, by chat responses and by the
\* commandStack.changed listener only: no test diagram was loaded
OnlyEdits == ui.used.testLoads = 0

\* C29: a chat response with the timeout status or the error status, which
\* carries the diagram sent with the request, leaves the current document
\* unchanged, whatever edits were made while the request was in flight:
\* bpmnXML after the response is bpmnXML before it, and no import is started.
C29_ErrorResponseKeepsDocument ==
    [][\A i \in 1..Len(ui.requests) :
          (OnlyEdits /\ ErrorDelivered(i))
              => /\ ui'.bpmnXML = ui.bpmnXML
                 /\ ui'.importing = ui.importing
                 /\ ui'.diagram = ui.diagram]_vars

\* C30: once the imports have settled the modeler shows the latest bpmnXML
\* that passes validateBPMNXML, so an update of bpmnXML that arrived while
\* the import of the effect was pending is not lost: when that import
\* resolves, and bpmnXML passes validateBPMNXML, the diagram loaded is bpmnXML.
C30_LatestDocumentLoaded ==
    [][(/\ ImportSettles
        /\ ui'.importing = NoImport
        /\ ui'.diagram # NoDiagram
        /\ validationOf(ui.bpmnXML, ui.domRejects).valid)
          => /\ ui'.bpmnXML = ui.bpmnXML
             /\ ui'.diagram = Imported(ui'.bpmnXML)]_vars
====
